---- MODULE Spec2Model ----
(***************************************************************************)
(* A model of the layered graph layout pipeline of nadavrot/layout: the    *)
(* ranked DAG (adt/dag.rs), the lowering of a VisualGraph (topo/layout.rs),*)
(* the rank and edge-crossing optimizers (topo/optimizer.rs), the          *)
(* Brandes-Koepf placer (topo/placer/bk.rs) and the SVG sink               *)
(* (backends/svg.rs).                                                      *)
(*                                                                         *)
(* Node handles are the indices 0..n-1 of the source.  A Rust Vec is a     *)
(* TLA+ sequence, so the element of handle h sits at position h+1 and the  *)
(* row of level l at position l+1.  A panic (a failed assertion, expect or *)
(* index check) is recorded in the field "panic" of the value it aborts;   *)
(* "none" means that the program is still running.                         *)
(***************************************************************************)
EXTENDS Integers, Sequences, FiniteSets, TLC

(***************************************************************************)
(* Bounds of the model.                                                    *)
(***************************************************************************)
\* The DAG driven through its interface.
MaxNodes == 3
MaxEdges == 2
MaxLevel == 3
\* The input of the lowering.
MaxInputNodes == 3
MaxInputEdges == 3
MaxDrawCalls == 3
MaxPlaceNodes == 3
MaxPlaceEdges == 2
\* The edges of a graph whose edges all go forward.
MaxForwardEdges == 3
\* The rightmost X coordinate given to a node, in pixels.
MaxX == 10100
\* The size of a NodeAttachInfo driven on its own.
MaxAttachNodes == 4
\* The depth, the keys and the values of a ScopedMap.
MaxScopes == 3
MaxKey == 2
MaxValue == 2
\* The length and the numbers of a list handed to weighted_median.
MaxMedianLen == 5
MaxNumber == 2
\* The length of an input of the lexer.
MaxInputLen == 4
\* The ranked DAG that swap_crossed_edges is run on: its nodes, its edges and
\* its last level.
MaxSwapNodes == 6
MaxSwapEdges == 4
MaxSwapLevel == 2

\* dag: the ranked DAG.  op: the operation that produced the current state.
\* nodes, edges, self_edges: the other fields of the VisualGraph that owns dag.
\* pc: the position of do_it.  disable_opt: its argument.
\* local_edges, processed: the cloned edge list of to_valid_dag and the number of
\* its edges already processed.
\* cross: the row orders that the EdgeCrossOptimizer of split_long_edges saw at
\* entry and right after each of its swap scans.
VARIABLES dag, op, nodes, edges, self_edges, pc, disable_opt, local_edges, processed, cross,
          svg, svg_out, svg_calls, elem_pos, bk, attach_info, vertical_list,
          scoped_map, scope_log, median_in, median_out, lexer, token, swap_run

vg_vars == <<nodes, edges, self_edges, pc, disable_opt, local_edges, processed, cross>>

\* The SVG writer of two runs, their finalized documents and the number of
\* draw calls made.
svg_vars == <<svg, svg_out, svg_calls>>

\* elem_pos: the pos fields of the elements.  bk: the vertical lists, the four
\* placements and the sched_idx of the four schedulers of BK::do_it.
place_vars == <<elem_pos, bk>>

\* attach_info: a NodeAttachInfo driven through its interface.
\* vertical_list: what get_verticals returned for it.
attach_vars == <<attach_info, vertical_list>>

\* scoped_map: a ScopedMap driven through its interface.  scope_log: the
\* inserts made into each of its open scopes.
map_vars == <<scoped_map, scope_log>>

\* median_in: the list handed to weighted_median.  median_out: what it
\* returned.
median_vars == <<median_in, median_out>>

\* lexer: the Lexer.  token: what its last next_token returned.
lex_vars == <<lexer, token>>

\* The state of the data structures that are driven on their own.
unit_vars == <<attach_vars, map_vars, median_vars, lex_vars, swap_run>>

\* The state of the stages that follow the lowering.
post_vars == <<svg_vars, place_vars, unit_vars>>

vars == <<dag, op, nodes, edges, self_edges, pc, disable_opt, local_edges, processed, cross,
          svg, svg_out, svg_calls, elem_pos, bk, attach_info, vertical_list,
          scoped_map, scope_log, median_in, median_out, lexer, token, swap_run>>

(***************************************************************************)
(* Vec helpers.                                                            *)
(***************************************************************************)
\* iter().position(|x| *x == e): the 1-based position of the first
\* occurrence of e in s, 0 for None.
Position(s, e) ==
  IF \E i \in 1..Len(s) : s[i] = e
  THEN CHOOSE i \in 1..Len(s) : s[i] = e /\ \A j \in 1..(i - 1) : s[j] # e
  ELSE 0

\* Vec::remove(pos), pos 1-based.
RemoveAt(s, pos) == SubSeq(s, 1, pos - 1) \o SubSeq(s, pos + 1, Len(s))

\* Vec::insert(pos, e): e ends at the 1-based position pos.
InsertAt(s, pos, e) == SubSeq(s, 1, pos - 1) \o <<e>> \o SubSeq(s, pos, Len(s))

Reverse(s) == [i \in 1..Len(s) |-> s[Len(s) + 1 - i]]

Count(s, e) == Cardinality({i \in 1..Len(s) : s[i] = e})

Min(a, b) == IF a < b THEN a ELSE b

Max(a, b) == IF a > b THEN a ELSE b

(***************************************************************************)
(* adt/dag.rs: the ranked DAG.                                             *)
(***************************************************************************)
DAG_new == [nodes |-> <<>>, ranks |-> <<>>, levels |-> <<>>, panic |-> "none"]

len(d) == Len(d.nodes)

is_empty(d) == Len(d.nodes) = 0

\* The handles of the nodes of d, which DAG::iter yields in ascending order.
Handles(d) == 0..(len(d) - 1)

successors(d, n) == d.nodes[n + 1].successors

predecessors(d, n) == d.nodes[n + 1].predecessors

level(d, n) == d.levels[n + 1]

num_levels(d) == Len(d.ranks)

row(d, l) == d.ranks[l + 1]

Panic(d, msg) == [d EXCEPT !.panic = msg]

add_edge(d, from, to) ==
  [d EXCEPT !.nodes[from + 1].successors = Append(@, to),
            !.nodes[to + 1].predecessors = Append(@, from)]

\* A remove_edge that forgets the predecessor list of the target.
remove_edge_SuccessorsOnly(d, from, to) ==
  LET succ == successors(d, from)
      spos == Position(succ, to)
  IN IF spos # 0
     THEN [dag |-> [d EXCEPT !.nodes[from + 1].successors = RemoveAt(succ, spos)],
           res |-> TRUE]
     ELSE [dag |-> d, res |-> FALSE]

\* A remove_edge that takes every a -> b out of the two lists.
remove_edge_AllOccurrences(d, from, to) ==
  LET RECURSIVE without(_, _)
      without(s, e) ==
        IF Position(s, e) = 0 THEN s ELSE without(RemoveAt(s, Position(s, e)), e)
  IN IF Position(successors(d, from), to) # 0
     THEN [dag |-> [d EXCEPT !.nodes[from + 1].successors = without(@, to),
                             !.nodes[to + 1].predecessors = without(@, from)],
           res |-> TRUE]
     ELSE [dag |-> d, res |-> FALSE]

\* remove_edge returns the DAG and the boolean result; the assert_eq of the
\* two removal flags is the panic "pred-succ mismatch".
remove_edge(d, from, to) ==
  LET succ == successors(d, from)
      spos == Position(succ, to)
      removed_succ == spos # 0
      d1 == IF removed_succ
            THEN [d EXCEPT !.nodes[from + 1].successors = RemoveAt(succ, spos)]
            ELSE d
      pred == predecessors(d1, to)
      ppos == Position(pred, from)
      removed_pred == ppos # 0
      d2 == IF removed_pred
            THEN [d1 EXCEPT !.nodes[to + 1].predecessors = RemoveAt(pred, ppos)]
            ELSE d1
  IN IF removed_pred # removed_succ
     THEN [dag |-> Panic(d, "pred-succ mismatch"), res |-> FALSE]
     ELSE [dag |-> d2, res |-> removed_pred]

RECURSIVE PadRows(_, _)
PadRows(ranks, n) == IF Len(ranks) < n THEN PadRows(Append(ranks, <<>>), n) ELSE ranks

add_element_to_rank(d, elem, lvl, prepend) ==
  LET ranks1 == PadRows(d.ranks, lvl + 1)
  IN [d EXCEPT !.ranks = [ranks1 EXCEPT ![lvl + 1] =
                            IF prepend THEN <<elem>> \o @ ELSE Append(@, elem)],
               !.levels[elem + 1] = lvl]

\* new_node: the handle of the new node is len(d) of the DAG before the call.
new_node(d) ==
  LET Node_new == [successors |-> <<>>, predecessors |-> <<>>]
      d1 == [d EXCEPT !.nodes = Append(@, Node_new), !.levels = Append(@, 0)]
  IN add_element_to_rank(d1, Len(d1.nodes) - 1, 0, FALSE)

\* is_reachable_inner: visited is the set of nodes on the DFS stack (an entry
\* is cleared when the call that set it returns false).
RECURSIVE is_reachable_inner(_, _, _, _)
is_reachable_inner(d, from, to, visited) ==
  IF from = to THEN TRUE
  ELSE IF from \in visited THEN FALSE
  ELSE \E i \in 1..Len(successors(d, from)) :
         is_reachable_inner(d, successors(d, from)[i], to, visited \cup {from})

is_reachable(d, from, to) ==
  IF from = to THEN TRUE ELSE is_reachable_inner(d, from, to, {})

count_nodes_in_ranks(d) ==
  LET RECURSIVE Sum(_)
      Sum(i) == IF i = 0 THEN 0 ELSE Len(d.ranks[i]) + Sum(i - 1)
  IN Sum(Len(d.ranks))

\* verify: the panic it ends with, "none" when every assertion passes.
verify(d) ==
  IF \E n \in Handles(d) : \E i \in 1..Len(successors(d, n)) :
       successors(d, n)[i] >= len(d)
  THEN "invalid node index"
  ELSE IF \E n \in Handles(d) : \E i \in 1..Len(successors(d, n)) :
            LET dest == successors(d, n)[i]
            IN is_reachable(d, dest, n) /\ n # dest
  THEN "We found a cycle!"
  ELSE IF count_nodes_in_ranks(d) # len(d)
  THEN "nodes not in ranks"
  ELSE "none"

\* topological_sort: the worklist holds <<handle, cmd>> and is popped from
\* its end; the result is the reversed post-order.
RECURSIVE topological_sort_loop(_, _, _, _)
topological_sort_loop(d, worklist, visited, order) ==
  IF Len(worklist) = 0 THEN order
  ELSE LET top == worklist[Len(worklist)]
           current == top[1]
           cmd == top[2]
           rest == SubSeq(worklist, 1, Len(worklist) - 1)
       IN IF cmd THEN topological_sort_loop(d, rest, visited, Append(order, current))
          ELSE IF current \in visited THEN topological_sort_loop(d, rest, visited, order)
          ELSE LET succ == successors(d, current)
                   children == [i \in 1..Len(succ) |-> <<succ[i], FALSE>>]
               IN topological_sort_loop(d, Append(rest, <<current, TRUE>>) \o children,
                                        visited \cup {current}, order)

\* A topological_sort that returns the post-order as it is.
topological_sort_PostOrder(d) ==
  topological_sort_loop(d, [i \in 1..len(d) |-> <<i - 1, FALSE>>], {}, <<>>)

topological_sort(d) ==
  Reverse(topological_sort_loop(d, [i \in 1..len(d) |-> <<i - 1, FALSE>>], {}, <<>>))

\* compute_levels returns the levels and the panic of its assertions.  loop is
\* its first loop over the order and succ_loop the loop over the successors
\* of a node; levels is indexed by handle+1.
compute_levels(d, order) ==
  LET RECURSIVE succ_loop(_, _, _, _)
      succ_loop(succ, src, i, lv) ==
        IF i > Len(succ) THEN lv
        ELSE LET dest == succ[i]
             IN IF src = dest THEN succ_loop(succ, src, i + 1, lv)
                ELSE succ_loop(succ, src, i + 1,
                       [lv EXCEPT ![dest + 1] = Max(@, lv[src + 1] + 1)])
      RECURSIVE loop(_, _)
      loop(k, lv) ==
        IF k > Len(order) THEN lv
        ELSE loop(k + 1, succ_loop(successors(d, order[k]), order[k], 1, lv))
      levels == loop(1, [i \in 1..len(d) |-> 0])
  IN IF Len(order) # len(d)
     THEN [levels |-> levels, panic |-> "order length"]
     ELSE IF \E k \in 1..Len(order) : \E i \in 1..Len(successors(d, order[k])) :
               levels[successors(d, order[k])[i] + 1] < levels[order[k] + 1]
     THEN [levels |-> levels, panic |-> "levels[dest] >= levels[src]"]
     ELSE [levels |-> levels, panic |-> "none"]

\* recompute_node_ranks; place is its loop that puts every node in its row.
recompute_node_ranks(d) ==
  LET RECURSIVE place(_, _, _)
      place(d1, levels, i) ==
        IF i > Len(levels) THEN d1
        ELSE place(add_element_to_rank(d1, i - 1, levels[i], FALSE), levels, i + 1)
  IN IF is_empty(d) THEN Panic(d, "Sorting an empty graph")
     ELSE LET order == topological_sort(d)
              cl == compute_levels(d, order)
          IN IF cl.panic # "none" THEN Panic(d, cl.panic)
             ELSE place([d EXCEPT !.ranks = <<>>], cl.levels, 1)

\* An update_node_rank_level that leaves the node in its old row.
update_node_rank_level_KeepsOldEntry(d, node, new_level, insert_before) ==
  LET d2 == [d EXCEPT !.ranks = PadRows(@, new_level + 1)]
      r == row(d2, new_level)
      mpos == Position(r, insert_before)
  IN IF insert_before # -1
     THEN IF mpos # 0
          THEN [d2 EXCEPT !.ranks[new_level + 1] = InsertAt(r, mpos, node),
                          !.levels[node + 1] = new_level]
          ELSE Panic(d, "Can't find the marker node in the array")
     ELSE [d2 EXCEPT !.ranks[new_level + 1] = Append(r, node),
                     !.levels[node + 1] = new_level]

\* An update_node_rank_level that inserts the node behind the marker.
update_node_rank_level_BehindMarker(d, node, new_level, insert_before) ==
  LET curr_level == level(d, node)
      idx == IF curr_level < Len(d.ranks) THEN Position(row(d, curr_level), node) ELSE 0
      d1 == [d EXCEPT !.ranks[curr_level + 1] = RemoveAt(@, idx)]
      d2 == [d1 EXCEPT !.ranks = PadRows(@, new_level + 1)]
      r == row(d2, new_level)
      mpos == Position(r, insert_before)
  IN IF idx = 0 THEN Panic(d, "node not found")
     ELSE IF insert_before # -1
     THEN IF mpos # 0
          THEN [d2 EXCEPT !.ranks[new_level + 1] = InsertAt(r, mpos + 1, node),
                          !.levels[node + 1] = new_level]
          ELSE Panic(d, "Can't find the marker node in the array")
     ELSE [d2 EXCEPT !.ranks[new_level + 1] = Append(r, node),
                     !.levels[node + 1] = new_level]

\* update_node_rank_level: insert_before is the marker handle, -1 for None.
update_node_rank_level(d, node, new_level, insert_before) ==
  LET curr_level == level(d, node)
      idx == IF curr_level < Len(d.ranks) THEN Position(row(d, curr_level), node) ELSE 0
      d1 == [d EXCEPT !.ranks[curr_level + 1] = RemoveAt(@, idx)]
      d2 == [d1 EXCEPT !.ranks = PadRows(@, new_level + 1)]
      r == row(d2, new_level)
      mpos == Position(r, insert_before)
  IN IF idx = 0 THEN Panic(d, "node not found")
     ELSE IF insert_before # -1
     THEN IF mpos # 0
          THEN [d2 EXCEPT !.ranks[new_level + 1] = InsertAt(r, mpos, node),
                          !.levels[node + 1] = new_level]
          ELSE Panic(d, "Can't find the marker node in the array")
     ELSE [d2 EXCEPT !.ranks[new_level + 1] = Append(r, node),
                     !.levels[node + 1] = new_level]

(***************************************************************************)
(* topo/optimizer.rs: EdgeCrossOptimizer.                                  *)
(***************************************************************************)
Iterations == 50

PerturbEvery == 10

PerturbStride == 17

is_down(dir) == dir \in {"Both", "Down"}

is_up(dir) == dir \in {"Both", "Up"}

\* num_crossing; is_neighbour is the any(|x| x == node) over the successors
\* and the predecessors of n.
num_crossing(d, a, b, r) ==
  LET is_neighbour(n, node) ==
        \/ \E i \in 1..Len(successors(d, n)) : successors(d, n)[i] = node
        \/ \E i \in 1..Len(predecessors(d, n)) : predecessors(d, n)[i] = node
      RECURSIVE loop(_, _, _)
      loop(i, sum, num_b) ==
        IF i > Len(r) THEN sum
        ELSE loop(i + 1,
                  IF is_neighbour(a, r[i]) THEN sum + num_b ELSE sum,
                  IF is_neighbour(b, r[i]) THEN num_b + 1 ELSE num_b)
  IN  loop(1, 0, 0)

\* perturb_rank; swap is the Vec::swap of the 0-based positions i and j.
perturb_rank(d) ==
  LET swap(s, i, j) == [s EXCEPT ![i + 1] = s[j + 1], ![j + 1] = s[i + 1]]
      RECURSIVE perturb_row(_, _)
      perturb_row(r, j) ==
        IF j >= Len(r) THEN r
        ELSE perturb_row(swap(r, (j * PerturbStride) % Len(r), j), j + 1)
  IN  [d EXCEPT !.ranks = [i \in 1..Len(d.ranks) |-> perturb_row(d.ranks[i], 0)]]

\* rotate_left(1) panics on an empty row (mid <= len is asserted).
rotate_rank(d) ==
  IF \E i \in 1..Len(d.ranks) : Len(d.ranks[i]) = 0
  THEN Panic(d, "assertion failed: mid <= self.len()")
  ELSE [d EXCEPT !.ranks = [i \in 1..Len(d.ranks) |->
                              SubSeq(d.ranks[i], 2, Len(d.ranks[i])) \o <<d.ranks[i][1]>>]]

count_crossing_in_rows(d, first, second) ==
  IF Len(first) < 2 THEN 0
  ELSE LET RECURSIVE SumJ(_, _)
           SumJ(i, j) == IF j > Len(first) THEN 0
                         ELSE num_crossing(d, first[i], first[j], second) + SumJ(i, j + 1)
           RECURSIVE SumI(_)
           SumI(i) == IF i > Len(first) THEN 0 ELSE SumJ(i, i + 1) + SumI(i + 1)
       IN SumI(1)

\* count_crossed_edges of the rows ranks over the edges of d; num_levels() - 1
\* underflows when there is no row, which is guarded by the callers below.
count_crossed_edges(d, ranks) ==
  LET RECURSIVE Sum(_)
      Sum(i) == IF i >= Len(ranks) THEN 0
                ELSE count_crossing_in_rows(d, ranks[i], ranks[i + 1]) + Sum(i + 1)
  IN Sum(1)

\* A swap_crossed_edges_on_row that also swaps a pair when both orders cross
\* as often.
swap_crossed_edges_on_row_NotStrict(d, row_idx, dir) ==
  LET prev_row == IF row_idx > 0 /\ is_up(dir) THEN row(d, row_idx - 1) ELSE <<>>
      next_row ==
        IF row_idx + 1 < num_levels(d) /\ is_down(dir) THEN row(d, row_idx + 1) ELSE <<>>
      RECURSIVE pairs(_, _, _)
      pairs(r, i, changed) ==
        IF i >= Len(r) THEN [row |-> r, changed |-> changed]
        ELSE LET a == r[i]
                 b == r[i + 1]
                 ab == num_crossing(d, a, b, prev_row) + num_crossing(d, a, b, next_row)
                 ba == num_crossing(d, b, a, prev_row) + num_crossing(d, b, a, next_row)
             IN IF ab >= ba
                THEN pairs([r EXCEPT ![i] = b, ![i + 1] = a], i + 1, TRUE)
                ELSE pairs(r, i + 1, changed)
      store(sw) ==
        IF sw.changed
        THEN [dag |-> [d EXCEPT !.ranks[row_idx + 1] = sw.row], changed |-> TRUE]
        ELSE [dag |-> d, changed |-> FALSE]
  IN  IF Len(row(d, row_idx)) < 2 THEN [dag |-> d, changed |-> FALSE]
      ELSE store(pairs(row(d, row_idx), 1, FALSE))

\* A swap_crossed_edges_on_row whose swap writes b to both places.
swap_crossed_edges_on_row_LosesA(d, row_idx, dir) ==
  LET prev_row == IF row_idx > 0 /\ is_up(dir) THEN row(d, row_idx - 1) ELSE <<>>
      next_row ==
        IF row_idx + 1 < num_levels(d) /\ is_down(dir) THEN row(d, row_idx + 1) ELSE <<>>
      RECURSIVE pairs(_, _, _)
      pairs(r, i, changed) ==
        IF i >= Len(r) THEN [row |-> r, changed |-> changed]
        ELSE LET a == r[i]
                 b == r[i + 1]
                 ab == num_crossing(d, a, b, prev_row) + num_crossing(d, a, b, next_row)
                 ba == num_crossing(d, b, a, prev_row) + num_crossing(d, b, a, next_row)
             IN IF ab > ba
                THEN pairs([r EXCEPT ![i] = b, ![i + 1] = b], i + 1, TRUE)
                ELSE pairs(r, i + 1, changed)
      store(sw) ==
        IF sw.changed
        THEN [dag |-> [d EXCEPT !.ranks[row_idx + 1] = sw.row], changed |-> TRUE]
        ELSE [dag |-> d, changed |-> FALSE]
  IN  IF Len(row(d, row_idx)) < 2 THEN [dag |-> d, changed |-> FALSE]
      ELSE store(pairs(row(d, row_idx), 1, FALSE))

\* swap_crossed_edges_on_row returns the DAG and whether a pair was swapped.
\* prev_row and next_row are the neighbour rows that it clones, pairs its loop
\* over the adjacent pairs of the row and store its end: the row is written
\* back if changed.
swap_crossed_edges_on_row(d, row_idx, dir) ==
  LET prev_row == IF row_idx > 0 /\ is_up(dir) THEN row(d, row_idx - 1) ELSE <<>>
      next_row ==
        IF row_idx + 1 < num_levels(d) /\ is_down(dir) THEN row(d, row_idx + 1) ELSE <<>>
      RECURSIVE pairs(_, _, _)
      pairs(r, i, changed) ==
        IF i >= Len(r) THEN [row |-> r, changed |-> changed]
        ELSE LET a == r[i]
                 b == r[i + 1]
                 ab == num_crossing(d, a, b, prev_row) + num_crossing(d, a, b, next_row)
                 ba == num_crossing(d, b, a, prev_row) + num_crossing(d, b, a, next_row)
             IN IF ab > ba
                THEN pairs([r EXCEPT ![i] = b, ![i + 1] = a], i + 1, TRUE)
                ELSE pairs(r, i + 1, changed)
      store(sw) ==
        IF sw.changed
        THEN [dag |-> [d EXCEPT !.ranks[row_idx + 1] = sw.row], changed |-> TRUE]
        ELSE [dag |-> d, changed |-> FALSE]
  IN  IF Len(row(d, row_idx)) < 2 THEN [dag |-> d, changed |-> FALSE]
      ELSE store(pairs(row(d, row_idx), 1, FALSE))

\* swap_crossed_edges.  rows is one pass over the rows in the order idxs (a
\* sequence of row indices), s being the result of the row idxs[k]; down_order
\* is 0..num_levels and up_order is (0..num_levels).rev().
RECURSIVE swap_crossed_edges(_, _)
swap_crossed_edges(d, dir) ==
  LET RECURSIVE rows(_, _, _, _), rows_next(_, _, _, _)
      rows_next(s, idxs, k, changed) == rows(s.dag, idxs, k + 1, changed \/ s.changed)
      rows(d1, idxs, k, changed) ==
        IF k > Len(idxs) THEN [dag |-> d1, changed |-> changed]
        ELSE rows_next(swap_crossed_edges_on_row(d1, idxs[k], dir), idxs, k, changed)
      down_order(d1) == [i \in 1..num_levels(d1) |-> i - 1]
      up_order(d1) == [i \in 1..num_levels(d1) |-> num_levels(d1) - i]
      down_pass(d1) ==
        IF is_down(dir) THEN rows(d1, down_order(d1), 1, FALSE)
        ELSE [dag |-> d1, changed |-> FALSE]
      up_pass(s) == IF is_up(dir) THEN rows(s.dag, up_order(s.dag), 1, s.changed) ELSE s
      while_changed(s) == IF s.changed THEN swap_crossed_edges(s.dag, dir) ELSE s.dag
  IN  while_changed(up_pass(down_pass(d)))

\* An end of optimize that leaves the rows as the last iteration left them.
EdgeCross_restore_LeavesCurrent(d, st) ==
  IF st.dag.panic # "none"
  THEN [dag |-> Panic(d, st.dag.panic), snaps |-> st.snaps]
  ELSE [dag |-> st.dag, snaps |-> st.snaps]

\* *self.dag.ranks_mut() = best_rank, unless the loop panicked.
EdgeCross_restore(d, st) ==
  IF st.dag.panic # "none"
  THEN [dag |-> Panic(d, st.dag.panic), snaps |-> st.snaps]
  ELSE [dag |-> [st.dag EXCEPT !.ranks = st.best_rank], snaps |-> st.snaps]

\* EdgeCrossOptimizer::optimize: the DAG it leaves and the snapshots it saw.
\* iter is one iteration of its loop on the loop state st: the DAG, the
\* iteration i, best_rank, best_cnt and snaps, the row orders seen right after
\* each swap scan.  d1 is the DAG after the swap scan, new_cnt its crossing
\* count and d2 the DAG after rotate_rank.  verified is the body of optimize
\* after self.dag.verify(), whose outcome is v; num_levels() - 1 underflows
\* when there is no row.
EdgeCross_run(d) ==
  LET dir_of(i) == IF i % 4 = 0 THEN "Both" ELSE IF i % 4 = 1 THEN "Up" ELSE "Down"
      keep(st, d1, new_cnt, d2) ==
        [dag |-> IF st.i % PerturbEvery = 0 /\ d2.panic = "none" THEN perturb_rank(d2) ELSE d2,
         i |-> st.i + 1,
         best_rank |-> IF new_cnt < st.best_cnt THEN d1.ranks ELSE st.best_rank,
         best_cnt |-> IF new_cnt < st.best_cnt THEN new_cnt ELSE st.best_cnt,
         snaps |-> st.snaps \cup {d1.ranks}]
      scanned(st, d1) == keep(st, d1, count_crossed_edges(d1, d1.ranks), rotate_rank(d1))
      iter(st) == scanned(st, swap_crossed_edges(st.dag, dir_of(st.i)))
      RECURSIVE loop(_)
      loop(st) == IF st.dag.panic # "none" \/ st.i >= Iterations THEN st ELSE loop(iter(st))
      verified(v) ==
        IF v # "none" THEN [dag |-> Panic(d, v), snaps |-> {}]
        ELSE IF num_levels(d) = 0
        THEN [dag |-> Panic(d, "attempt to subtract with overflow"), snaps |-> {}]
        ELSE EdgeCross_restore(d,
               loop([dag |-> d, i |-> 0, best_rank |-> d.ranks,
                     best_cnt |-> count_crossed_edges(d, d.ranks),
                     snaps |-> {}]))
  IN  verified(verify(d))

EdgeCrossOptimizer_optimize(d) == EdgeCross_run(d).dag

(***************************************************************************)
(* topo/optimizer.rs: RankOptimizer.                                       *)
(***************************************************************************)
\* A try_to_sink_node that moves the node onto the level of its nearest
\* successor.
sink_to_SuccessorLevel(d, node, highest_next) ==
  IF highest_next > level(d, node) + 1
  THEN [dag |-> update_node_rank_level(d, node, highest_next, -1), res |-> TRUE]
  ELSE [dag |-> d, res |-> FALSE]

\* The end of try_to_sink_node, highest_next being computed.
sink_to(d, node, highest_next) ==
  IF highest_next > level(d, node) + 1
  THEN [dag |-> update_node_rank_level(d, node, highest_next - 1, -1), res |-> TRUE]
  ELSE [dag |-> d, res |-> FALSE]

\* A try_to_sink_node that also sinks a node with more predecessors than
\* successors.
try_to_sink_node_AnyDegree(d, node) ==
  LET RECURSIVE highest_next_loop(_, _, _)
      highest_next_loop(fwds, i, highest_next) ==
        IF i > Len(fwds) THEN highest_next
        ELSE highest_next_loop(fwds, i + 1, Min(highest_next, level(d, fwds[i])))
  IN  IF Len(predecessors(d, node)) + Len(successors(d, node)) = 0
      THEN [dag |-> d, res |-> FALSE]
      ELSE sink_to(d, node, highest_next_loop(successors(d, node), 1, len(d)))

\* try_to_sink_node returns the DAG and whether the node was moved.
try_to_sink_node(d, node) ==
  LET RECURSIVE highest_next_loop(_, _, _)
      highest_next_loop(fwds, i, highest_next) ==
        IF i > Len(fwds) THEN highest_next
        ELSE highest_next_loop(fwds, i + 1, Min(highest_next, level(d, fwds[i])))
  IN  IF \/ Len(predecessors(d, node)) > Len(successors(d, node))
         \/ Len(predecessors(d, node)) + Len(successors(d, node)) = 0
      THEN [dag |-> d, res |-> FALSE]
      ELSE sink_to(d, node, highest_next_loop(successors(d, node), 1, len(d)))

\* RankOptimizer::optimize.  pass is one pass of its loop over the nodes n,
\* n+1, ...; s is the result of try_to_sink_node on n and c counts the moved
\* nodes.  verified is the body of optimize after self.dag.verify(), whose
\* outcome is v.
RankOptimizer_optimize(d) ==
  LET RECURSIVE pass(_, _, _), pass_next(_, _, _)
      pass_next(s, n, c) == pass(s.dag, n + 1, IF s.res THEN c + 1 ELSE c)
      pass(d1, n, c) ==
        IF n >= len(d1) \/ d1.panic # "none" THEN [dag |-> d1, c |-> c]
        ELSE pass_next(try_to_sink_node(d1, n), n, c)
      RECURSIVE loop(_), until_stable(_)
      until_stable(p) == IF p.c = 0 \/ p.dag.panic # "none" THEN p.dag ELSE loop(p.dag)
      loop(d1) == until_stable(pass(d1, 0, 0))
      verified(v) == IF v # "none" THEN Panic(d, v) ELSE loop(d)
  IN  verified(verify(d))

(***************************************************************************)
(* std_shapes/shapes.rs: arrows and elements.                              *)
(***************************************************************************)
\* An Arrow: its two line ends, its label and its two ports, "None" for the
\* Option::None of a port.  line_style, look and properties are copied by
\* every operation and left out.
Arrow_default ==
  [start |-> "None", end |-> "Arrow", text |-> "", src_port |-> "None", dst_port |-> "None"]

\* An Arrow::reverse that swaps the line ends and leaves the ports.
Arrow_reverse_KeepsPorts(a) ==
  [start |-> a.end, end |-> a.start, text |-> a.text,
   src_port |-> a.src_port, dst_port |-> a.dst_port]

Arrow_reverse(a) ==
  [start |-> a.end, end |-> a.start, text |-> a.text,
   src_port |-> a.dst_port, dst_port |-> a.src_port]

\* An Element: the kind of its shape and its text.
Element_create(text) == [shape |-> "Box", text |-> text]

\* A create_connector that drops the label.
create_connector_Unlabelled(label) == [shape |-> "Connector", text |-> ""]

create_connector(label) == [shape |-> "Connector", text |-> label]

empty_connector == create_connector("")

(***************************************************************************)
(* topo/layout.rs: VisualGraph.  A graph g is the record of its fields     *)
(* nodes, edges (each an arrow and the list lst of the handles it visits), *)
(* self_edges and dag.  A panic of the lowering is recorded in g.dag.      *)
(***************************************************************************)
VG_panic(g, msg) == [g EXCEPT !.dag = Panic(g.dag, msg)]

\* self.dag.verify() as the next statement: not reached after a panic; v is
\* the outcome of its assertions.
then_verify(d) ==
  LET verified(v) == IF v = "none" THEN d ELSE Panic(d, v)
  IN  IF d.panic = "none" THEN verified(verify(d)) ELSE d

VG_add_node(g, elem) ==
  IF len(g.dag) # Len(g.nodes)
  THEN VG_panic(g, "assertion failed: res.get_index() == self.nodes.len()")
  ELSE [g EXCEPT !.dag = new_node(g.dag), !.nodes = Append(@, elem)]

VG_add_edge(g, arrow, from, to) ==
  IF from >= Len(g.nodes) \/ to >= Len(g.nodes) THEN VG_panic(g, "Invalid handle")
  ELSE [g EXCEPT !.edges = Append(@, [arrow |-> arrow, lst |-> <<from, to>>])]

\* to_valid_dag, the end of the loop body: the edge goes into the DAG and
\* into the edge list, and the DAG is verified.
to_valid_dag_insert(g, arrow, from, to) ==
  LET g1 == VG_add_edge([g EXCEPT !.dag = add_edge(g.dag, from, to)], arrow, from, to)
  IN [g1 EXCEPT !.dag = then_verify(g1.dag)]

\* A to_valid_dag loop body that never reverses an edge.
to_valid_dag_edge_NeverReverses(g, edge) ==
  IF edge.lst[1] = edge.lst[2]
  THEN [g EXCEPT !.self_edges = Append(@, [arrow |-> edge.arrow, node |-> edge.lst[1]])]
  ELSE to_valid_dag_insert(g, edge.arrow, edge.lst[1], edge.lst[2])

\* to_valid_dag, the loop body on one edge of the cloned edge list.
to_valid_dag_edge(g, edge) ==
  IF Len(edge.lst) # 2 THEN VG_panic(g, "assertion failed: lst.len() == 2")
  ELSE IF edge.lst[1] = edge.lst[2]
  THEN [g EXCEPT !.self_edges = Append(@, [arrow |-> edge.arrow, node |-> edge.lst[1]])]
  ELSE IF is_reachable(g.dag, edge.lst[2], edge.lst[1])
  THEN to_valid_dag_insert(g, Arrow_reverse(edge.arrow), edge.lst[2], edge.lst[1])
  ELSE to_valid_dag_insert(g, edge.arrow, edge.lst[1], edge.lst[2])

\* split_text_edges.  edge is its loop body on the edge i; connect continues
\* on the graph after add_node(conn); rewire is the end of the loop body, rem
\* being the outcome of remove_edge(from, to) and conn the new connector.
split_text_edges(g) ==
  LET rewire(g1, i, from, conn, to, rem) ==
        IF rem.dag.panic # "none" THEN [g1 EXCEPT !.dag = rem.dag]
        ELSE IF ~rem.res THEN VG_panic(g1, "Expected the edge to be in the graph!")
        ELSE [g1 EXCEPT !.dag = add_edge(add_edge(rem.dag, from, conn), conn, to),
                        !.edges[i] = [arrow |-> [@.arrow EXCEPT !.text = ""],
                                      lst |-> <<from, conn, to>>]]
      connect(g1, i, from, to) ==
        IF g1.dag.panic # "none" THEN g1
        ELSE rewire(g1, i, from, Len(g1.nodes) - 1, to, remove_edge(g1.dag, from, to))
      edge(g1, i) ==
        IF Len(g1.edges[i].lst) # 2 THEN VG_panic(g1, "assertion failed: lst.len() == 2")
        ELSE IF g1.edges[i].arrow.text = "" THEN g1
        ELSE connect(VG_add_node(g1, create_connector(g1.edges[i].arrow.text)),
                     i, g1.edges[i].lst[1], g1.edges[i].lst[2])
      RECURSIVE loop(_, _)
      loop(g1, i) ==
        IF i > Len(g1.edges) \/ g1.dag.panic # "none" THEN g1 ELSE loop(edge(g1, i), i + 1)
  IN  loop(g, 1)

\* split_long_edges starts with recompute_node_ranks and verify.
rank_nodes(d) == then_verify(recompute_node_ranks(d))

\* A split_long_edges that leaves the long edge in the DAG next to the chain
\* through the connector.
RECURSIVE split_long_loop_KeepsEdge(_, _)
split_long_loop_KeepsEdge(g, e) ==
  LET connect(d, prev, conn, curr, prev_level) ==
        IF d.panic # "none" THEN d
        ELSE update_node_rank_level(add_edge(add_edge(d, prev, conn), conn, curr),
                                    conn, prev_level + 1, -1)
      insert(g1, i, prev, curr, prev_level) ==
        IF g1.dag.panic # "none" THEN g1
        ELSE [g1 EXCEPT !.edges[e].lst = InsertAt(@, i + 1, Len(g1.nodes) - 1),
                        !.dag = connect(g1.dag,
                                        prev, Len(g1.nodes) - 1, curr, prev_level)]
      RECURSIVE path(_, _), step(_, _, _, _, _, _)
      step(g1, i, prev, curr, prev_level, curr_level) ==
        IF ~(prev_level < curr_level) THEN VG_panic(g1, "Invalid edge")
        ELSE IF prev_level + 1 = curr_level THEN path(g1, i + 1)
        ELSE path(insert(VG_add_node(g1, empty_connector), i, prev, curr, prev_level), i)
      path(g1, i) ==
        IF g1.dag.panic # "none" \/ i >= Len(g1.edges[e].lst) THEN g1
        ELSE step(g1, i, g1.edges[e].lst[i], g1.edges[e].lst[i + 1],
                  level(g1.dag, g1.edges[e].lst[i]),
                  level(g1.dag, g1.edges[e].lst[i + 1]))
  IN  IF g.dag.panic # "none" \/ e > Len(g.edges) THEN g
      ELSE split_long_loop_KeepsEdge(path(g, 1), e + 1)

\* The for loop of split_long_edges over the edges, from the edge e on.  path
\* is its while loop over the list of an edge, i counted from 0 as in the
\* source; prev and curr are the entries i-1 and i of the list.  insert works
\* on the graph after add_node(conn); connect puts the connector conn between
\* prev and curr in the DAG after remove_edge(prev, curr).
RECURSIVE split_long_loop(_, _)
split_long_loop(g, e) ==
  LET connect(d, prev, conn, curr, prev_level) ==
        IF d.panic # "none" THEN d
        ELSE update_node_rank_level(add_edge(add_edge(d, prev, conn), conn, curr),
                                    conn, prev_level + 1, -1)
      insert(g1, i, prev, curr, prev_level) ==
        IF g1.dag.panic # "none" THEN g1
        ELSE [g1 EXCEPT !.edges[e].lst = InsertAt(@, i + 1, Len(g1.nodes) - 1),
                        !.dag = connect(remove_edge(g1.dag, prev, curr).dag,
                                        prev, Len(g1.nodes) - 1, curr, prev_level)]
      RECURSIVE path(_, _), step(_, _, _, _, _, _)
      step(g1, i, prev, curr, prev_level, curr_level) ==
        IF ~(prev_level < curr_level) THEN VG_panic(g1, "Invalid edge")
        ELSE IF prev_level + 1 = curr_level THEN path(g1, i + 1)
        ELSE path(insert(VG_add_node(g1, empty_connector), i, prev, curr, prev_level), i)
      path(g1, i) ==
        IF g1.dag.panic # "none" \/ i >= Len(g1.edges[e].lst) THEN g1
        ELSE step(g1, i, g1.edges[e].lst[i], g1.edges[e].lst[i + 1],
                  level(g1.dag, g1.edges[e].lst[i]),
                  level(g1.dag, g1.edges[e].lst[i + 1]))
  IN  IF g.dag.panic # "none" \/ e > Len(g.edges) THEN g
      ELSE split_long_loop(path(g, 1), e + 1)

\* expand_self_edges.  edge is its loop body after add_node(conn): the
\* connector goes in front of the node in the row of the node.
expand_self_edges(g) ==
  LET place(g1, se, conn, d) ==
        IF d.panic # "none" THEN [g1 EXCEPT !.dag = d]
        ELSE [g1 EXCEPT !.dag = d,
                        !.edges = Append(@, [arrow |-> [se.arrow EXCEPT !.text = ""],
                                             lst |-> <<se.node, conn, se.node>>])]
      edge(g1, se, lvl) ==
        IF g1.dag.panic # "none" THEN g1
        ELSE place(g1, se, Len(g1.nodes) - 1,
                   update_node_rank_level(g1.dag, Len(g1.nodes) - 1, lvl, se.node))
      RECURSIVE loop(_, _)
      loop(g1, i) ==
        IF g1.dag.panic # "none" THEN g1
        ELSE IF i > Len(g1.self_edges) THEN [g1 EXCEPT !.self_edges = <<>>]
        ELSE loop(edge(VG_add_node(g1, create_connector(g1.self_edges[i].arrow.text)),
                       g1.self_edges[i], level(g1.dag, g1.self_edges[i].node)),
                  i + 1)
  IN  loop(g, 1)

\* geometry.rs: a Point.
Point(x, y) == [x |-> x, y |-> y]

\* backends/svg.rs: the writer that SVGWriter::new returns.
SVGWriter_new ==
  [content |-> "",
   view_size |-> Point(0, 0),
   counter |-> 0,
   font_style_map |-> [k \in {} |-> <<"", "">>],
   clip_regions |-> <<>>]

\* topo/placer/bk.rs: the links that NodeAttachInfo::new returns, -1 for None.
NodeAttachInfo_new(size) ==
  [above |-> [i \in 1..size |-> -1], below |-> [i \in 1..size |-> -1], panic |-> "none"]

\* adt/map.rs: the map that ScopedMap::new returns.
ScopedMap_new == [stack |-> <<>>, panic |-> "none"]

(***************************************************************************)
(* The DAG driven through its public interface.                            *)
(***************************************************************************)
NumEdges(d) ==
  LET RECURSIVE Sum(_)
      Sum(i) == IF i = 0 THEN 0 ELSE Len(d.nodes[i].successors) + Sum(i - 1)
  IN Sum(Len(d.nodes))

Init ==
  /\ dag = DAG_new
  /\ op = "new"
  /\ nodes = <<>>
  /\ edges = <<>>
  /\ self_edges = <<>>
  /\ pc = "build"
  /\ disable_opt = FALSE
  /\ local_edges = <<>>
  /\ processed = 0
  /\ cross = [entry |-> <<>>, snaps |-> {}]
  /\ svg = [r \in {1, 2} |-> SVGWriter_new]
  /\ svg_out = [r \in {1, 2} |-> <<>>]
  /\ svg_calls = 0
  /\ elem_pos = <<>>
  /\ bk = [verticals |-> <<>>, xs |-> <<>>, sched_idx |-> <<>>]
  /\ attach_info = NodeAttachInfo_new(0)
  /\ vertical_list = [verticals |-> <<>>, panic |-> "not called"]
  /\ scoped_map = ScopedMap_new
  /\ scope_log = <<>>
  /\ median_in = <<>>
  /\ median_out = [val |-> 0, panic |-> "not called"]
  /\ lexer = [input |-> <<>>, pos |-> 0, ch |-> "\\0"]
  /\ token = [kind |-> "none", text |-> <<>>, pos |-> 0]
  /\ swap_run = [state |-> "idle", dir |-> "Both", order |-> <<>>, k |-> 0,
                 changed |-> FALSE, swapped |-> FALSE]

NewNode ==
  /\ dag.panic = "none"
  /\ len(dag) < MaxNodes
  /\ dag' = new_node(dag)
  /\ op' = "new_node"
  /\ UNCHANGED <<vg_vars, post_vars>>

AddEdge ==
  /\ dag.panic = "none"
  /\ NumEdges(dag) < MaxEdges
  /\ \E a \in Handles(dag), b \in Handles(dag) : dag' = add_edge(dag, a, b)
  /\ op' = "add_edge"
  /\ UNCHANGED <<vg_vars, post_vars>>

RemoveEdge ==
  /\ dag.panic = "none"
  /\ \E a \in Handles(dag), b \in Handles(dag) :
       \E r \in {remove_edge(dag, a, b)} :
         /\ dag' = r.dag
         /\ op' = IF r.res THEN "remove_edge true" ELSE "remove_edge false"
  /\ UNCHANGED <<vg_vars, post_vars>>

RecomputeNodeRanks ==
  /\ dag.panic = "none"
  /\ dag' = recompute_node_ranks(dag)
  /\ op' = "recompute_node_ranks"
  /\ UNCHANGED <<vg_vars, post_vars>>

UpdateNodeRankLevel ==
  /\ dag.panic = "none"
  /\ \E n \in Handles(dag), l \in 0..MaxLevel, m \in {-1} \cup Handles(dag) :
       dag' = update_node_rank_level(dag, n, l, m)
  /\ op' = "update_node_rank_level"
  /\ UNCHANGED <<vg_vars, post_vars>>

RankOptimize ==
  /\ dag.panic = "none"
  /\ dag' = RankOptimizer_optimize(dag)
  /\ op' = "RankOptimizer::optimize"
  /\ UNCHANGED <<vg_vars, post_vars>>

EdgeCrossOptimize ==
  /\ dag.panic = "none"
  /\ dag' = EdgeCrossOptimizer_optimize(dag)
  /\ op' = "EdgeCrossOptimizer::optimize"
  /\ UNCHANGED <<vg_vars, post_vars>>

Next ==
  \/ NewNode
  \/ AddEdge
  \/ RemoveEdge
  \/ RecomputeNodeRanks
  \/ UpdateNodeRankLevel
  \/ RankOptimize
  \/ EdgeCrossOptimize

Spec == Init /\ [][Next]_vars

(***************************************************************************)
(* A VisualGraph is built by add_node and add_edge and lowered by do_it:   *)
(* to_valid_dag edge by edge, split_text_edges, and split_long_edges step  *)
(* by step.                                                                *)
(***************************************************************************)
\* The arrows of the input: the default arrow, and a labelled arrow between
\* two ports.
InputArrows ==
  {Arrow_default,
   [start |-> "None", end |-> "Arrow", text |-> "t", src_port |-> "e", dst_port |-> "w"]}

VG == [nodes |-> nodes, edges |-> edges, self_edges |-> self_edges, dag |-> dag]

SetVG(g) ==
  /\ nodes' = g.nodes
  /\ edges' = g.edges
  /\ self_edges' = g.self_edges
  /\ dag' = g.dag

AddNode ==
  /\ pc = "build" /\ dag.panic = "none"
  /\ Len(nodes) < MaxInputNodes
  /\ SetVG(VG_add_node(VG, Element_create("n")))
  /\ op' = "VisualGraph::add_node"
  /\ UNCHANGED <<pc, disable_opt, local_edges, processed, cross, post_vars>>

AddInputEdge ==
  /\ pc = "build" /\ dag.panic = "none"
  /\ Len(edges) < MaxInputEdges
  /\ \E arrow \in InputArrows, a \in Handles(dag), b \in Handles(dag) :
       SetVG(VG_add_edge(VG, arrow, a, b))
  /\ op' = "VisualGraph::add_edge"
  /\ UNCHANGED <<pc, disable_opt, local_edges, processed, cross, post_vars>>

\* do_it enters lower and to_valid_dag: the edge list is cloned and cleared.
DoIt ==
  /\ pc = "build" /\ dag.panic = "none"
  /\ \E d \in BOOLEAN : disable_opt' = d
  /\ local_edges' = edges
  /\ processed' = 0
  /\ SetVG(IF Len(nodes) # len(dag) THEN VG_panic(VG, "bad number of nodes")
           ELSE [VG EXCEPT !.edges = <<>>])
  /\ pc' = "to_valid_dag"
  /\ op' = "do_it"
  /\ UNCHANGED <<cross, post_vars>>

ToValidDagEdge ==
  /\ pc = "to_valid_dag" /\ dag.panic = "none"
  /\ processed < Len(local_edges)
  /\ SetVG(to_valid_dag_edge(VG, local_edges[processed + 1]))
  /\ processed' = processed + 1
  /\ op' = "to_valid_dag"
  /\ UNCHANGED <<pc, disable_opt, local_edges, cross, post_vars>>

SplitTextEdges ==
  /\ pc = "to_valid_dag" /\ dag.panic = "none"
  /\ processed = Len(local_edges)
  /\ SetVG(split_text_edges(VG))
  /\ local_edges' = <<>>
  /\ processed' = 0
  /\ pc' = "split_long_edges"
  /\ op' = "split_text_edges"
  /\ UNCHANGED <<disable_opt, cross, post_vars>>

RankNodes ==
  /\ pc = "split_long_edges" /\ dag.panic = "none"
  /\ dag' = rank_nodes(dag)
  /\ pc' = "rank_opt"
  /\ op' = "recompute_node_ranks"
  /\ UNCHANGED <<nodes, edges, self_edges, disable_opt, local_edges, processed, cross, post_vars>>

OptimizeRanks ==
  /\ pc = "rank_opt" /\ dag.panic = "none"
  /\ dag' = IF disable_opt THEN dag ELSE RankOptimizer_optimize(dag)
  /\ pc' = "split"
  /\ op' = IF disable_opt THEN op ELSE "RankOptimizer::optimize"
  /\ UNCHANGED <<nodes, edges, self_edges, disable_opt, local_edges, processed, cross, post_vars>>

SplitLongEdges ==
  /\ pc = "split" /\ dag.panic = "none"
  /\ SetVG(split_long_loop(VG, 1))
  /\ pc' = "cross_opt"
  /\ op' = "split_long_edges"
  /\ UNCHANGED <<disable_opt, local_edges, processed, cross, post_vars>>

OptimizeCrossings ==
  /\ pc = "cross_opt" /\ dag.panic = "none"
  /\ IF disable_opt THEN UNCHANGED <<dag, op, cross>>
     ELSE \E r \in {EdgeCross_run(dag)} :
            /\ dag' = r.dag
            /\ cross' = [entry |-> dag.ranks, snaps |-> r.snaps]
            /\ op' = "EdgeCrossOptimizer::optimize"
  /\ pc' = "expand_self_edges"
  /\ UNCHANGED <<nodes, edges, self_edges, disable_opt, local_edges, processed, post_vars>>

ExpandSelfEdges ==
  /\ pc = "expand_self_edges" /\ dag.panic = "none"
  /\ SetVG(expand_self_edges(VG))
  /\ pc' = "lowered"
  /\ op' = "expand_self_edges"
  /\ UNCHANGED <<disable_opt, local_edges, processed, cross, post_vars>>

LowerNext ==
  \/ AddNode
  \/ AddInputEdge
  \/ DoIt
  \/ ToValidDagEdge
  \/ SplitTextEdges
  \/ RankNodes
  \/ OptimizeRanks
  \/ SplitLongEdges
  \/ OptimizeCrossings
  \/ ExpandSelfEdges

LowerSpec == Init /\ [][LowerNext]_vars

(***************************************************************************)
(* SVGWriter (backends/svg.rs).  A document is a TLA+ string, built with   *)
(* the concatenations that format! and push_str perform.  A text is the    *)
(* sequence of its characters.  Coordinates are whole numbers, which f64   *)
(* displays without a fraction.  A colour is carried as the text that      *)
(* to_web_color renders for it.  font_style_map is a HashMap: a function   *)
(* from the font sizes inserted so far to (class name, class text); the    *)
(* order in which its entries are iterated is not fixed by the map.        *)
(***************************************************************************)
\* The `{}` of format! for a usize or a whole f64.
Display(n) ==
  LET digit(d) ==
        CASE d = 0 -> "0" [] d = 1 -> "1" [] d = 2 -> "2" [] d = 3 -> "3" [] d = 4 -> "4"
          [] d = 5 -> "5" [] d = 6 -> "6" [] d = 7 -> "7" [] d = 8 -> "8" [] d = 9 -> "9"
      RECURSIVE nat(_)
      nat(k) == IF k < 10 THEN digit(k) ELSE nat(k \div 10) \o digit(k % 10)
  IN  IF n < 0 THEN "-" \o nat(0 - n) ELSE nat(n)

SVG_HEADER == "<?xml version=\"1.0\" encoding=\"UTF-8\" standalone=\"no\"?>"

SVG_DEFS ==
  "<defs>\n<marker id=\"startarrow\" markerWidth=\"10\" markerHeight=\"7\"\n"
  \o "refX=\"0\" refY=\"3.5\" orient=\"auto\">\n<polygon points=\"10 0, 10 7, 0 3.5\" />\n"
  \o "</marker>\n<marker id=\"endarrow\" markerWidth=\"10\" markerHeight=\"7\"\n"
  \o "refX=\"10\" refY=\"3.5\" orient=\"auto\">\n<polygon points=\"0 0, 10 3.5, 0 7\" />\n"
  \o "</marker>\n\n</defs>"

SVG_FOOTER == "</svg>"

RECURSIVE escape_string(_)
escape_string(x) ==
  LET escape_char(c) ==
        CASE c = "&" -> "&amp;" [] c = "<" -> "&lt;" [] c = ">" -> "&gt;"
          [] c = "\"" -> "&quot;" [] c = "'" -> "&apos;" [] OTHER -> c
  IN  IF x = <<>> THEN "" ELSE escape_char(Head(x)) \o escape_string(Tail(x))

\* str::lines: the pieces between line feeds, without a last empty piece.
lines(text) ==
  LET RECURSIVE loop(_, _, _)
      loop(rest, cur, acc) ==
        IF rest = <<>> THEN (IF cur = <<>> THEN acc ELSE Append(acc, cur))
        ELSE IF Head(rest) = "\n" THEN loop(Tail(rest), <<>>, Append(acc, cur))
        ELSE loop(Tail(rest), Append(cur, Head(rest)), acc)
  IN  loop(text, <<>>, <<>>)

grow_window(w, point, size) ==
  [w EXCEPT !.view_size = Point(Max(@.x, point.x + size.x + 5),
                                Max(@.y, point.y + size.y + 5))]

\* The writer after get_or_create_font_style(font_size); entry is the (class
\* name, class text) that it builds.
get_or_create_font_style(w, font_size) ==
  LET entry ==
        <<"a" \o Display(font_size),
          ".a" \o Display(font_size) \o " { font-size: " \o Display(font_size)
            \o "px; font-family: Times, serif; }">>
  IN  IF font_size \in DOMAIN w.font_style_map THEN w
      ELSE [w EXCEPT !.font_style_map =
              [k \in (DOMAIN @) \cup {font_size} |-> IF k = font_size THEN entry ELSE @[k]]]

\* The class name that get_or_create_font_style(font_size) returned, read from
\* the writer it left.
font_class(w, font_size) == w.font_style_map[font_size][1]

\* The possible iteration orders of a HashMap with the key set keys.
iter_orders(keys) ==
  {o \in [1..Cardinality(keys) -> keys] : \A i, j \in DOMAIN o : o[i] = o[j] => i = j}

\* order: the order in which font_style_map.iter() yields the entries.
emit_svg_font_styles(w, order) ==
  LET RECURSIVE font_styles(_)
      font_styles(o) ==
        IF o = <<>> THEN ""
        ELSE w.font_style_map[Head(o)][2] \o "\n" \o font_styles(Tail(o))
      RECURSIVE clip_regions(_)
      clip_regions(regions) ==
        IF regions = <<>> THEN "" ELSE Head(regions) \o "\n" \o clip_regions(Tail(regions))
  IN  "<style>\n" \o font_styles(order) \o "</style>\n" \o clip_regions(w.clip_regions)

finalize(w, order) ==
  LET svg_line(view_size) ==
        "<svg width=\"" \o Display(view_size.x) \o "\" height=\"" \o Display(view_size.y)
          \o "\" viewBox=\"0 0 " \o Display(view_size.x) \o " " \o Display(view_size.y)
          \o "\" xmlns=\"http://www.w3.org/2000/svg\">\n"
  IN  SVG_HEADER \o svg_line(w.view_size) \o SVG_DEFS \o emit_svg_font_styles(w, order)
        \o w.content \o SVG_FOOTER

push_content(w, line) == [w EXCEPT !.content = @ \o line]

\* clip: a clip handle, or -1 for None.
draw_rect(w, xy, size, look, properties, clip) ==
  LET clip_option == IF clip < 0 THEN "" ELSE "clip-path=\"url(#C" \o Display(clip) \o ")\""
  IN  push_content(grow_window(w, xy, size),
        "<g " \o properties \o ">\n\n            <rect x=\"" \o Display(xy.x)
          \o "\" y=\"" \o Display(xy.y) \o "\" width=\"" \o Display(size.x)
          \o "\" height=\"" \o Display(size.y) \o "\" fill=\"" \o look.fill_color
          \o "\" \n            stroke-width=\"" \o Display(look.line_width)
          \o "\" stroke=\"" \o look.line_color \o "\" rx=\"" \o Display(look.rounded)
          \o "\" " \o clip_option \o " />\n\n            </g>\n")

\* size.x and size.y are even, so that their halves are whole.
draw_circle(w, xy, size, look, properties) ==
  push_content(grow_window(w, xy, size),
    "<g " \o properties \o ">\n\n            <ellipse cx=\"" \o Display(xy.x)
      \o "\" cy=\"" \o Display(xy.y) \o "\" rx=\"" \o Display(size.x \div 2)
      \o "\" ry=\"" \o Display(size.y \div 2) \o "\" fill=\"" \o look.fill_color
      \o "\" \n            stroke-width=\"" \o Display(look.line_width)
      \o "\" stroke=\"" \o look.line_color \o "\"/>\n\n            </g>\n")

\* draw_text.  emit works on w1, the writer after get_or_create_font_style.
\* The font size is even, so that half of size_y is whole.
draw_text(w, xy, text, look) ==
  LET RECURSIVE tspans(_)
      tspans(ls) ==
        IF ls = <<>> THEN ""
        ELSE "<tspan x = \"" \o Display(xy.x) \o "\" dy=\"1.0em\">" \o escape_string(Head(ls))
               \o "</tspan>" \o tspans(Tail(ls))
      emit(w1) ==
        push_content(grow_window(w1, xy, Point(10, Len(text) * 10)),
          "<text dominant-baseline=\"middle\" text-anchor=\"middle\" \n            x=\""
            \o Display(xy.x) \o "\" y=\""
            \o Display(xy.y - (((1 + Len(lines(text))) * look.font_size) \div 2))
            \o "\" class=\"" \o font_class(w1, look.font_size) \o "\">"
            \o tspans(lines(text)) \o "</text>")
  IN  emit(get_or_create_font_style(w, look.font_size))

\* draw_arrow.  grow is the loop that grows the window over the points of the
\* path, path_builder the d attribute of the path; write_path works on the
\* writer after grow, and write_text on w2, the writer after the path was
\* written and the font style was looked up.
draw_arrow(w, path, dashed, head, look, properties, text) ==
  LET RECURSIVE grow(_, _)
      grow(w1, rest) ==
        IF rest = <<>> THEN w1
        ELSE grow(grow_window(grow_window(w1, Head(rest)[1], Point(0, 0)),
                              Head(rest)[2], Point(0, 0)),
                  Tail(rest))
      RECURSIVE path_entries(_)
      path_entries(rest) ==
        IF rest = <<>> THEN ""
        ELSE "S " \o Display(Head(rest)[1].x) \o " " \o Display(Head(rest)[1].y) \o ", "
               \o Display(Head(rest)[2].x) \o " " \o Display(Head(rest)[2].y) \o " "
               \o path_entries(Tail(rest))
      path_builder ==
        "M " \o Display(path[1][1].x) \o " " \o Display(path[1][1].y)
          \o " C " \o Display(path[1][2].x) \o " " \o Display(path[1][2].y)
          \o ", " \o Display(path[2][1].x) \o " " \o Display(path[2][1].y)
          \o ", " \o Display(path[2][2].x) \o " " \o Display(path[2][2].y) \o " "
          \o path_entries(Tail(Tail(path)))
      write_path(w1) ==
        push_content(w1,
          "<g " \o properties \o ">\n\n            <path id=\"arrow" \o Display(w1.counter)
            \o "\" d=\"" \o path_builder \o "\" stroke=\"" \o look.line_color
            \o "\" stroke-width=\"" \o Display(look.line_width) \o "\" "
            \o (IF dashed THEN "stroke-dasharray=\"5,5\"" ELSE "") \o " "
            \o (IF head[1] THEN "marker-start=\"url(#startarrow)\"" ELSE "") \o " "
            \o (IF head[2] THEN "marker-end=\"url(#endarrow)\"" ELSE "")
            \o " \n            fill=\"transparent\" />\n\n            </g>\n")
      write_text(w2) ==
        [push_content(w2,
           "<text><textPath href=\"#arrow" \o Display(w2.counter)
             \o "\" startOffset=\"50%\" text-anchor=\"middle\" class=\""
             \o font_class(w2, look.font_size) \o "\">" \o escape_string(text)
             \o "</textPath></text>")
         EXCEPT !.counter = @ + 1]
  IN  write_text(get_or_create_font_style(write_path(grow(w, path)), look.font_size))

draw_line(w, start, stop, look, properties) ==
  push_content(w,
    "<g " \o properties \o ">\n\n             <line x1=\"" \o Display(start.x)
      \o "\" y1=\"" \o Display(start.y) \o "\" x2=\"" \o Display(stop.x)
      \o "\" y2=\"" \o Display(stop.y) \o "\" stroke-width=\""
      \o Display(look.line_width) \o "\"\n             stroke=\"" \o look.line_color
      \o "\" />\n\n             </g>\n")

\* The writer after create_clip; the handle returned is the index of the new
\* region, Len(w.clip_regions).
create_clip(w, xy, size, rounded_px) ==
  [w EXCEPT !.clip_regions = Append(@,
     "<clipPath id=\"C" \o Display(Len(w.clip_regions)) \o "\"><rect x=\""
       \o Display(xy.x) \o "\" y=\"" \o Display(xy.y) \o "\" width=\""
       \o Display(size.x) \o "\" height=\"" \o Display(size.y) \o "\" rx=\""
       \o Display(rounded_px) \o "\" /> </clipPath>")]

(***************************************************************************)
(* Two runs of the rendering: both writers receive the same draw calls, as *)
(* VisualGraph::render issues them for one input, and each run finalizes   *)
(* its own writer.                                                         *)
(***************************************************************************)
Runs == {1, 2}

FontSizes == {12, 14}

Texts == {<<>>, <<"a", "<", "b">>, <<"x", "\n", "y">>}

StyleAttr_new(font_size) ==
  [line_color |-> "black", line_width |-> 1, fill_color |-> "white",
   rounded |-> 0, font_size |-> font_size]

ArrowPath == <<<<Point(10, 10), Point(10, 20)>>, <<Point(30, 40), Point(30, 50)>>>>

SvgDrawing ==
  /\ svg_calls < MaxDrawCalls
  /\ \A r \in Runs : svg_out[r] = <<>>
  /\ svg_calls' = svg_calls + 1
  /\ UNCHANGED <<dag, op, vg_vars, place_vars, unit_vars, svg_out>>

SvgDrawRect ==
  /\ SvgDrawing
  /\ \E clip \in {-1} \cup (0..(Len(svg[1].clip_regions) - 1)) :
       svg' = [r \in Runs |->
                 draw_rect(svg[r], Point(20, 30), Point(40, 20), StyleAttr_new(14), "", clip)]

SvgDrawCircle ==
  /\ SvgDrawing
  /\ svg' = [r \in Runs |->
               draw_circle(svg[r], Point(60, 30), Point(40, 20), StyleAttr_new(14), "")]

SvgDrawText ==
  /\ SvgDrawing
  /\ \E text \in Texts, font_size \in FontSizes :
       svg' = [r \in Runs |->
                 draw_text(svg[r], Point(40, 40), text, StyleAttr_new(font_size))]

SvgDrawArrow ==
  /\ SvgDrawing
  /\ \E dashed \in BOOLEAN, font_size \in FontSizes :
       svg' = [r \in Runs |->
                 draw_arrow(svg[r], ArrowPath, dashed, <<FALSE, TRUE>>,
                            StyleAttr_new(font_size), "", <<"t">>)]

SvgDrawLine ==
  /\ SvgDrawing
  /\ svg' = [r \in Runs |->
               draw_line(svg[r], Point(0, 0), Point(40, 40), StyleAttr_new(14), "")]

SvgCreateClip ==
  /\ SvgDrawing
  /\ svg' = [r \in Runs |-> create_clip(svg[r], Point(20, 30), Point(40, 20), 0)]

\* A run finalizes its writer; the map yields its entries in one of its orders.
SvgFinalize ==
  /\ \E r \in Runs :
       /\ svg_out[r] = <<>>
       /\ \E order \in iter_orders(DOMAIN svg[r].font_style_map) :
            svg_out' = [svg_out EXCEPT ![r] = <<finalize(svg[r], order)>>]
  /\ UNCHANGED <<dag, op, vg_vars, place_vars, unit_vars, svg, svg_calls>>

SvgNext ==
  \/ SvgDrawRect
  \/ SvgDrawCircle
  \/ SvgDrawText
  \/ SvgDrawArrow
  \/ SvgDrawLine
  \/ SvgCreateClip
  \/ SvgFinalize

SvgSpec == Init /\ [][SvgNext]_vars

(***************************************************************************)
(* core/geometry.rs: Point and Position.  A length is a whole number of    *)
(* units of EPSILON / 8, that is 1/8000 of a pixel: the sizes that occur   *)
(* are whole pixels, so every halving, every median and the four-way       *)
(* average of BK::do_it are whole numbers of units and the arithmetic of   *)
(* the model is the exact arithmetic of the f64 values.                    *)
(***************************************************************************)
EPSILON == 8

Pixel == 1000 * EPSILON

Point_add(a, b) == Point(a.x + b.x, a.y + b.y)

Point_sub(a, b) == Point(a.x - b.x, a.y - b.y)

Abs(x) == IF x < 0 THEN 0 - x ELSE x

Position_new(middle, size, center, halo) ==
  [middle |-> middle, size |-> size, center |-> center, halo |-> halo]

Position_size(p, with_halo) == IF with_halo THEN Point_add(p.size, p.halo) ELSE p.size

\* BoundingBox::from_top_left of middle - size.scale(0.5) and size.
Position_bbox(p, with_halo) ==
  LET from_top_left(top_left, size) == <<top_left, Point_add(top_left, size)>>
      of_size(size) ==
        from_top_left(Point_sub(p.middle, Point(size.x \div 2, size.y \div 2)), size)
  IN  of_size(Position_size(p, with_halo))

Position_center(p) == Point_add(p.middle, p.center)

Position_distance_to_left(p, with_halo) ==
  Position_center(p).x - Position_bbox(p, with_halo)[1].x

Position_distance_to_right(p, with_halo) ==
  Position_bbox(p, with_halo)[2].x - Position_center(p).x

\* The two assertions of set_new_center_point.
center_point_ok(p) == Abs(p.center.x) < p.size.x /\ Abs(p.center.y) < p.size.y

Position_align_to_top(p, y) ==
  [p EXCEPT !.middle.y = y + (p.size.y \div 2) + (p.halo.y \div 2)]

Position_align_to_left(p, x) ==
  [p EXCEPT !.middle.x = x + (p.size.x \div 2) + (p.halo.x \div 2)]

Position_translate(p, d) == [p EXCEPT !.middle = Point_add(@, d)]

Position_set_x(p, x) == [p EXCEPT !.middle.x = x - p.center.x]

\* A weighted_median that takes the middle of the list as it was given.
weighted_median_Unsorted(vec) ==
  LET middle(sorted) ==
        IF Len(sorted) = 1 THEN sorted[1]
        ELSE IF Len(sorted) = 2 THEN (sorted[1] + sorted[2]) \div 2
        ELSE IF Len(sorted) % 2 = 1 THEN sorted[(Len(sorted) \div 2) + 1]
        ELSE (sorted[(Len(sorted) \div 2) + 1] + sorted[Len(sorted) \div 2]) \div 2
  IN  IF vec = <<>> THEN [val |-> 0, panic |-> "array can't be empty"]
      ELSE [val |-> middle(vec), panic |-> "none"]

\* weighted_median returns its value and the panic of its assertion:
\* vec.sort_by(partial_cmp), then the middle of the sorted list.
weighted_median(vec) ==
  LET RECURSIVE sort_insert(_, _)
      sort_insert(s, x) ==
        IF s = <<>> THEN <<x>>
        ELSE IF x < Head(s) THEN <<x>> \o s
        ELSE <<Head(s)>> \o sort_insert(Tail(s), x)
      RECURSIVE sort(_)
      sort(v) ==
        IF v = <<>> THEN <<>> ELSE sort_insert(sort(SubSeq(v, 1, Len(v) - 1)), v[Len(v)])
      middle(sorted) ==
        IF Len(sorted) = 1 THEN sorted[1]
        ELSE IF Len(sorted) = 2 THEN (sorted[1] + sorted[2]) \div 2
        ELSE IF Len(sorted) % 2 = 1 THEN sorted[(Len(sorted) \div 2) + 1]
        ELSE (sorted[(Len(sorted) \div 2) + 1] + sorted[Len(sorted) \div 2]) \div 2
  IN  IF vec = <<>> THEN [val |-> 0, panic |-> "array can't be empty"]
      ELSE [val |-> middle(sort(vec)), panic |-> "none"]

(***************************************************************************)
(* The positions of the elements.  A placed graph g is a VisualGraph       *)
(* record with one more field: g.pos[n + 1] is the pos field of the        *)
(* element n.  The orientation is TopToBottom, so that Placer::layout does *)
(* not transpose.  Every look is StyleAttr::simple().                      *)
(***************************************************************************)
PADDING == 60 * Pixel

CONN_PADDING == 10 * Pixel

BOX_SHAPE_PADDING == 10 * Pixel

SimpleFontSize == 15

\* The pos of Element::create(shape, look, orientation, size).
Element_create_pos(size) ==
  Position_new(Point(0, 0), size, Point(0, 0), Point(PADDING, PADDING))

\* The pos of Element::create_connector.
create_connector_pos ==
  Position_new(Point(0, 0), Point(0, 0), Point(0, 0), Point(CONN_PADDING, CONN_PADDING))

\* get_size_for_str of a label of one line at most.
get_size_for_str(label, font_size) ==
  Point(Max(Len(label), 1) * font_size * Pixel,
        Max(IF label = "" THEN 0 ELSE 1, 1) * font_size * Pixel)

\* get_shape_size of a box or of a connector; a connector without text is
\* ShapeKind::Connector(None).
get_shape_size(e, font) ==
  LET pad_shape_scalar(size, s) == Point(size.x + s, size.y + s)
  IN  IF e.shape = "Connector" /\ e.text = "" THEN Point(Pixel, Pixel)
      ELSE pad_shape_scalar(get_size_for_str(e.text, font), BOX_SHAPE_PADDING)

\* Element::resize: set_size, then set_new_center_point, whose assertions are
\* center_point_ok.
Element_resize(e, p) ==
  LET resize_to(size) == [p EXCEPT !.size = size, !.center = Point(0, size.y \div 2)]
  IN  IF e.shape = "Connector" THEN resize_to(get_shape_size(e, SimpleFontSize)) ELSE p

VG_pos(g, n) == g.pos[n + 1]

VG_set_pos(g, n, p) == [g EXCEPT !.pos[n + 1] = p]

is_connector(g, n) == g.nodes[n + 1].shape = "Connector"

(***************************************************************************)
(* topo/layout.rs: lower as one operation.                                 *)
(***************************************************************************)
to_valid_dag(g) ==
  LET RECURSIVE loop(_, _, _)
      loop(g1, lst, i) ==
        IF g1.dag.panic # "none" \/ i > Len(lst) THEN g1
        ELSE loop(to_valid_dag_edge(g1, lst[i]), lst, i + 1)
  IN  IF Len(g.nodes) # len(g.dag) THEN VG_panic(g, "bad number of nodes")
      ELSE loop([g EXCEPT !.edges = <<>>], g.edges, 1)

split_long_edges(g, disable_optimizations) ==
  LET ranked(d) == IF d.panic # "none" THEN d ELSE rank_nodes(d)
      rank_opt(d) ==
        IF d.panic # "none" \/ disable_optimizations THEN d ELSE RankOptimizer_optimize(d)
      split(g1) == IF g1.dag.panic # "none" THEN g1 ELSE split_long_loop(g1, 1)
      cross_opt(d) ==
        IF d.panic # "none" \/ disable_optimizations THEN d
        ELSE EdgeCrossOptimizer_optimize(d)
      expand(g1) == IF g1.dag.panic # "none" THEN g1 ELSE expand_self_edges(g1)
      crossed(g1) == expand([g1 EXCEPT !.dag = cross_opt(@)])
  IN  crossed(split([g EXCEPT !.dag = rank_opt(ranked(@))]))

\* lower.  In its last loop every element is resized; the elements that the
\* lowering added are connectors, whose pos is the one of create_connector.
lower(g, disable_optimizations) ==
  LET split_text(g1) == IF g1.dag.panic # "none" THEN g1 ELSE split_text_edges(g1)
      resize_elements(g1) ==
        [g1 EXCEPT !.pos =
           [h \in 1..Len(g1.nodes) |->
              Element_resize(g1.nodes[h],
                             IF h <= Len(g1.pos) THEN g1.pos[h] ELSE create_connector_pos)]]
      resize_checked(g1) ==
        IF \E h \in 1..Len(g1.nodes) :
              g1.nodes[h].shape = "Connector" /\ ~center_point_ok(g1.pos[h])
        THEN VG_panic(g1, "assertion failed: self.center.x.abs() < self.size.x")
        ELSE g1
      resize(g1) == IF g1.dag.panic # "none" THEN g1 ELSE resize_checked(resize_elements(g1))
  IN  resize(split_long_edges(split_text(to_valid_dag(g)), disable_optimizations))

(***************************************************************************)
(* topo/placer/move_between_rows.rs.                                       *)
(***************************************************************************)
get_row_width(g, idx) ==
  LET RECURSIVE loop(_, _)
      loop(rw, k) ==
        IF k > Len(rw) THEN 0
        ELSE Position_size(VG_pos(g, rw[k]), TRUE).x + loop(rw, k + 1)
  IN  loop(row(g.dag, idx), 1)

\* move_label returns the graph and its boolean result: the text moves when
\* pred is a connector without text and curr one with.
move_label(g, curr, pred) ==
  IF /\ is_connector(g, pred) /\ g.nodes[pred + 1].text = ""
     /\ is_connector(g, curr) /\ g.nodes[curr + 1].text # ""
  THEN [g |-> [g EXCEPT !.nodes[pred + 1].text = g.nodes[curr + 1].text,
                        !.nodes[curr + 1].text = "",
                        !.pos[pred + 1] =
                           Element_resize(create_connector(g.nodes[curr + 1].text), @),
                        !.pos[curr + 1] = Element_resize(empty_connector, @)],
        res |-> TRUE]
  ELSE [g |-> g, res |-> FALSE]

\* move_text_up.  st carries the graph and the two running sums prev_row_size
\* and curr_row_size; prev_row_size is the width of row 0 at entry, changed
\* only by the moves.
move_text_up(g) ==
  LET sizes(st, elem, pred, pred_node_size, curr_node_size) ==
        IF st.prev_row_size + curr_node_size < st.curr_row_size
             /\ move_label(st.g, elem, pred).res
        THEN [g |-> move_label(st.g, elem, pred).g,
              prev_row_size |-> st.prev_row_size + curr_node_size,
              curr_row_size |-> st.curr_row_size - curr_node_size]
        ELSE IF st.prev_row_size > st.curr_row_size + pred_node_size
                /\ move_label(st.g, pred, elem).res
        THEN [g |-> move_label(st.g, pred, elem).g,
              prev_row_size |-> st.prev_row_size - pred_node_size,
              curr_row_size |-> st.curr_row_size + pred_node_size]
        ELSE st
      with_pred(st, elem, pred) ==
        IF ~is_connector(st.g, pred) THEN st
        ELSE sizes(st, elem, pred,
                   Position_size(VG_pos(st.g, pred), TRUE).x,
                   Position_size(VG_pos(st.g, elem), TRUE).x)
      for_elem(st, elem) ==
        IF ~is_connector(st.g, elem) THEN st
        ELSE IF Len(predecessors(st.g.dag, elem)) # 1 THEN st
        ELSE with_pred(st, elem, predecessors(st.g.dag, elem)[1])
      RECURSIVE for_row(_, _, _)
      for_row(st, rw, k) ==
        IF k > Len(rw) THEN st ELSE for_row(for_elem(st, rw[k]), rw, k + 1)
      RECURSIVE for_rows(_, _)
      for_rows(st, i) ==
        IF i >= num_levels(st.g.dag) THEN st.g
        ELSE for_rows(for_row([st EXCEPT !.curr_row_size = get_row_width(st.g, i)],
                              row(st.g.dag, i), 1),
                      i + 1)
  IN  for_rows([g |-> g, prev_row_size |-> get_row_width(g, 0), curr_row_size |-> 0], 1)

move_between_rows_do_it(g) == move_text_up(move_text_up(move_text_up(g)))

(***************************************************************************)
(* topo/placer/simple.rs.                                                  *)
(***************************************************************************)
simple_align_to_left(g) ==
  LET RECURSIVE first_x_loop(_, _)
      first_x_loop(n, first_x) ==
        IF n >= len(g.dag) THEN first_x
        ELSE first_x_loop(n + 1, Min(first_x, Position_bbox(VG_pos(g, n), TRUE)[1].x))
      translate_all(d) ==
        [g EXCEPT !.pos = [h \in DOMAIN @ |-> Position_translate(@[h], d)]]
  IN  translate_all(Point(0 - first_x_loop(0, 10000 * Pixel), 0))

assign_y_coordinates(g) ==
  LET RECURSIVE row_max_height(_, _, _, _)
      row_max_height(g1, rw, k, max_height) ==
        IF k > Len(rw) THEN max_height
        ELSE row_max_height(g1, rw, k + 1,
                            Max(max_height, Position_size(VG_pos(g1, rw[k]), TRUE).y))
      RECURSIVE place_row(_, _, _, _)
      place_row(g1, rw, k, new_center) ==
        IF k > Len(rw) THEN g1
        ELSE place_row(
               VG_set_pos(g1, rw[k],
                 Position_align_to_top(VG_pos(g1, rw[k]),
                   new_center - (Position_size(VG_pos(g1, rw[k]), TRUE).y \div 2))),
               rw, k + 1, new_center)
      RECURSIVE rows(_, _, _), place(_, _, _, _)
      place(g1, i, lowest_point, max_height) ==
        rows(place_row(g1, row(g1.dag, i), 1, lowest_point + (max_height \div 2)),
             i + 1, lowest_point + max_height)
      rows(g1, i, lowest_point) ==
        IF i >= num_levels(g1.dag) THEN g1
        ELSE place(g1, i, lowest_point, row_max_height(g1, row(g1.dag, i), 1, 0))
  IN  rows(g, 0, 0)

assign_x_coordinates(g) ==
  LET RECURSIVE place_row(_, _, _, _), next(_, _, _)
      next(g1, rw, k) ==
        place_row(g1, rw, k + 1, Position_bbox(VG_pos(g1, rw[k]), TRUE)[2].x + EPSILON)
      place_row(g1, rw, k, rightmost_point) ==
        IF k > Len(rw) THEN g1
        ELSE next(VG_set_pos(g1, rw[k],
                    Position_align_to_left(VG_pos(g1, rw[k]), rightmost_point + EPSILON)),
                  rw, k)
      RECURSIVE rows(_, _)
      rows(g1, i) ==
        IF i >= num_levels(g1.dag) THEN g1
        ELSE rows(place_row(g1, row(g1.dag, i), 1, 0), i + 1)
  IN  rows(g, 0)

simple_do_it(g) == assign_x_coordinates(assign_y_coordinates(g))

(***************************************************************************)
(* topo/placer/bk.rs.  An OrderLR is "LeftToRight" or "RightToLeft".  An   *)
(* Option<NodeHandle> is a handle, or -1 for None.  A panic of the         *)
(* alignment or of the scheduler is kept in the field panic of its record. *)
(***************************************************************************)
is_left_to_right(order) == order = "LeftToRight"

\* A NodeAttachInfo::add that records the link in above only.
NodeAttachInfo_add_AboveOnly(info, from, to) ==
  IF info.panic # "none" THEN info
  ELSE IF info.below[to + 1] # -1 THEN [info EXCEPT !.panic = "Node is already taken"]
  ELSE IF info.above[from + 1] # -1 THEN [info EXCEPT !.panic = "Node is already set"]
  ELSE [info EXCEPT !.above[from + 1] = to]

NodeAttachInfo_add(info, from, to) ==
  IF info.panic # "none" THEN info
  ELSE IF info.below[to + 1] # -1 THEN [info EXCEPT !.panic = "Node is already taken"]
  ELSE IF info.above[from + 1] # -1 THEN [info EXCEPT !.panic = "Node is already set"]
  ELSE [info EXCEPT !.above[from + 1] = to, !.below[to + 1] = from]

\* The VerticalList of the links info, or the panic that info carries.
\* find_bottom is the walk to the bottom of the vertical of idx, -1 when the
\* walk has made more steps than there are nodes and so never ends; climb is
\* the walk up from idx, with the marks and the vertical it leaves.
get_verticals(info) ==
  LET RECURSIVE find_bottom(_, _)
      find_bottom(idx, steps) ==
        IF info.below[idx + 1] = -1 THEN idx
        ELSE IF steps > Len(info.below) THEN -1
        ELSE find_bottom(info.below[idx + 1], steps + 1)
      RECURSIVE climb(_, _, _)
      climb(idx, used, vertical) ==
        IF info.above[idx + 1] # -1 /\ ~used[idx + 1]
        THEN climb(info.above[idx + 1], [used EXCEPT ![idx + 1] = TRUE],
                   Append(vertical, info.above[idx + 1]))
        ELSE [used |-> [used EXCEPT ![idx + 1] = TRUE], vertical |-> vertical]
      RECURSIVE loop(_, _, _), from(_, _, _, _), push(_, _, _)
      push(i, res, c) == loop(i + 1, c.used, Append(res, c.vertical))
      from(i, used, res, bottom) ==
        IF bottom = -1 THEN [verticals |-> res, panic |-> "get_verticals does not terminate"]
        ELSE push(i, res, climb(bottom, used, <<bottom>>))
      loop(i, used, res) ==
        IF i >= Len(info.above) THEN [verticals |-> res, panic |-> "none"]
        ELSE IF used[i + 1] THEN loop(i + 1, used, res)
        ELSE from(i, used, res, find_bottom(i, 0))
  IN  IF info.panic # "none" THEN [verticals |-> <<>>, panic |-> info.panic]
      ELSE loop(0, [i \in 1..Len(info.above) |-> FALSE], <<>>)

are_edges_crossing(edge_a, edge_b) ==
  ~(edge_a[1] < edge_b[1] /\ edge_a[2] < edge_b[2])
    /\ ~(edge_a[1] > edge_b[1] /\ edge_a[2] > edge_b[2])

\* row_edges: the successor edges from the row r0 to the row r1, as pairs of
\* indices.  select is the loop labelled 'outer: a regular edge is pushed when
\* the inner loop runs to its end, that is when it meets only strong edges
\* that it crosses.  The edges returned go into a HashSet, so they are
\* collected as a set.
extract_edges_with_no_type2_conflict(g, r0, r1) ==
  LET row_edges ==
        {e \in (0..(Len(r0) - 1)) \X (0..(Len(r1) - 1)) :
           \E k \in 1..Len(successors(g.dag, r0[e[1] + 1])) :
              successors(g.dag, r0[e[1] + 1])[k] = r1[e[2] + 1]}
      is_strong_edge(e) == is_connector(g, r0[e[1] + 1]) /\ is_connector(g, r1[e[2] + 1])
      select(regular_edges, strong_edges) ==
        {<<r0[reg[1] + 1], r1[reg[2] + 1]>> :
            reg \in {e \in regular_edges :
                       \A strong \in strong_edges : are_edges_crossing(e, strong)}}
          \cup {<<r0[strong[1] + 1], r1[strong[2] + 1]>> : strong \in strong_edges}
  IN  select({e \in row_edges : ~is_strong_edge(e)}, {e \in row_edges : is_strong_edge(e)})

get_valid_edges(g) ==
  UNION {extract_edges_with_no_type2_conflict(g, row(g.dag, i), row(g.dag, i + 1)) :
           i \in 0..(num_levels(g.dag) - 2)}

get_pred_medians(g, valid_edges) ==
  LET RECURSIVE pos_list(_, _, _)
      pos_list(node, preds, k) ==
        IF k > Len(preds) THEN <<>>
        ELSE (IF <<preds[k], node>> \in valid_edges
              THEN <<Position_center(VG_pos(g, preds[k])).x>> ELSE <<>>)
               \o pos_list(node, preds, k + 1)
      median(list) == IF list = <<>> THEN 0 ELSE weighted_median(list).val
  IN  [h \in 1..len(g.dag) |-> median(pos_list(h - 1, predecessors(g.dag, h - 1), 1))]

\* A compute_alignment that marks as used only the node it linked to, and not
\* the nodes before it in the scan.
compute_alignment_MarksOne(g, order) ==
  LET scan_delta(best, idx, delta) ==
        IF best.idx = -1 \/ delta < best.delta THEN [idx |-> idx, delta |-> delta] ELSE best
      scan_pred(r0, used, node_x, best, pred) ==
        IF Position(r0, pred) = 0 THEN best
        ELSE IF used[Position(r0, pred)] THEN best
        ELSE scan_delta(best, Position(r0, pred) - 1,
                        Abs(Position_center(VG_pos(g, pred)).x - node_x))
      RECURSIVE scan_preds(_, _, _, _, _, _)
      scan_preds(r0, used, node_x, preds, k, best) ==
        IF k > Len(preds) THEN best
        ELSE scan_preds(r0, used, node_x, preds, k + 1,
                        scan_pred(r0, used, node_x, best, preds[k]))
      align_to_best(st, r0, node, best) ==
        IF best.idx = -1 THEN st
        ELSE [info |-> NodeAttachInfo_add(st.info, node, r0[best.idx + 1]),
              used |-> [j \in 1..Len(r0) |-> st.used[j] \/ j = best.idx + 1]]
      align_node(st, r0, node, medians) ==
        align_to_best(st, r0, node,
          scan_preds(r0, st.used, medians[node + 1], predecessors(g.dag, node), 1,
                     [idx |-> -1, delta |-> 0]))
      RECURSIVE align_row(_, _, _, _, _)
      align_row(st, r0, r1, k, medians) ==
        IF k > Len(r1) THEN st
        ELSE align_row(align_node(st, r0, r1[k], medians), r0, r1, k + 1, medians)
      scan_row(rw) == IF is_left_to_right(order) THEN rw ELSE Reverse(rw)
      RECURSIVE align_rows(_, _, _)
      align_rows(info, i, medians) ==
        IF i + 1 >= num_levels(g.dag) THEN info
        ELSE align_rows(
               align_row([info |-> info, used |-> [j \in 1..Len(row(g.dag, i)) |-> FALSE]],
                         scan_row(row(g.dag, i)), scan_row(row(g.dag, i + 1)),
                         1, medians).info,
               i + 1, medians)
  IN  align_rows(NodeAttachInfo_new(len(g.dag)), 0, get_pred_medians(g, get_valid_edges(g)))

\* compute_alignment.  In the scan of the predecessors of a node, best is
\* best_idx (-1 for None) with best_delta, which is infinite while best_idx
\* is None.  st is the links made so far and the marks used of the row above.
\* scan_row is the row as scanned: reversed for the search from the right.
compute_alignment(g, order) ==
  LET scan_delta(best, idx, delta) ==
        IF best.idx = -1 \/ delta < best.delta THEN [idx |-> idx, delta |-> delta] ELSE best
      scan_pred(r0, used, node_x, best, pred) ==
        IF Position(r0, pred) = 0 THEN best
        ELSE IF used[Position(r0, pred)] THEN best
        ELSE scan_delta(best, Position(r0, pred) - 1,
                        Abs(Position_center(VG_pos(g, pred)).x - node_x))
      RECURSIVE scan_preds(_, _, _, _, _, _)
      scan_preds(r0, used, node_x, preds, k, best) ==
        IF k > Len(preds) THEN best
        ELSE scan_preds(r0, used, node_x, preds, k + 1,
                        scan_pred(r0, used, node_x, best, preds[k]))
      align_to_best(st, r0, node, best) ==
        IF best.idx = -1 THEN st
        ELSE [info |-> NodeAttachInfo_add(st.info, node, r0[best.idx + 1]),
              used |-> [j \in 1..Len(r0) |-> st.used[j] \/ j <= best.idx + 1]]
      align_node(st, r0, node, medians) ==
        align_to_best(st, r0, node,
          scan_preds(r0, st.used, medians[node + 1], predecessors(g.dag, node), 1,
                     [idx |-> -1, delta |-> 0]))
      RECURSIVE align_row(_, _, _, _, _)
      align_row(st, r0, r1, k, medians) ==
        IF k > Len(r1) THEN st
        ELSE align_row(align_node(st, r0, r1[k], medians), r0, r1, k + 1, medians)
      scan_row(rw) == IF is_left_to_right(order) THEN rw ELSE Reverse(rw)
      RECURSIVE align_rows(_, _, _)
      align_rows(info, i, medians) ==
        IF i + 1 >= num_levels(g.dag) THEN info
        ELSE align_rows(
               align_row([info |-> info, used |-> [j \in 1..Len(row(g.dag, i)) |-> FALSE]],
                         scan_row(row(g.dag, i)), scan_row(row(g.dag, i + 1)),
                         1, medians).info,
               i + 1, medians)
  IN  align_rows(NodeAttachInfo_new(len(g.dag)), 0, get_pred_medians(g, get_valid_edges(g)))

\* A Scheduler.  An entry of last_x_for_row is <<x>>, or <<>> for the infinity
\* it starts with (negative from left to right, positive from right to left).
\* to_place is the local counter of schedule.
Scheduler_new(g, vl, order) ==
  [vl |-> vl.verticals,
   x_coordinates |-> [i \in 1..len(g.dag) |-> 0],
   sched_idx |-> [r \in 1..num_levels(g.dag) |-> 0],
   last_x_for_row |-> [r \in 1..num_levels(g.dag) |-> <<>>],
   order |-> order,
   to_place |-> Len(vl.verticals),
   panic |-> vl.panic]

\* A first_schedule_x that leaves out the distance from the center of the
\* element to its side.
first_schedule_x_step_NoOffset(s, g, elem, last_offset_x) ==
  IF s.last_x_for_row[level(g.dag, elem) + 1] = <<>> THEN last_offset_x
  ELSE IF is_left_to_right(s.order)
  THEN Max(last_offset_x, s.last_x_for_row[level(g.dag, elem) + 1][1])
  ELSE Min(last_offset_x, s.last_x_for_row[level(g.dag, elem) + 1][1])

\* first_schedule_x, the loop body.  While the end of the row is infinitely
\* far, the maximum (minimum) with last + offset (last - offset) is
\* last_offset_x.
first_schedule_x_step(s, g, elem, last_offset_x) ==
  IF s.last_x_for_row[level(g.dag, elem) + 1] = <<>> THEN last_offset_x
  ELSE IF is_left_to_right(s.order)
  THEN Max(last_offset_x,
           s.last_x_for_row[level(g.dag, elem) + 1][1]
             + Position_distance_to_left(VG_pos(g, elem), TRUE))
  ELSE Min(last_offset_x,
           s.last_x_for_row[level(g.dag, elem) + 1][1]
             - Position_distance_to_right(VG_pos(g, elem), TRUE))

first_schedule_x(s, g, v) ==
  LET RECURSIVE loop(_, _)
      loop(k, last_offset_x) ==
        IF k > Len(v) THEN last_offset_x
        ELSE loop(k + 1, first_schedule_x_step(s, g, v[k], last_offset_x))
  IN  loop(1, 0)

place_vertical(s, g, v, center_x) ==
  LET step(s1, elem) ==
        [s1 EXCEPT !.x_coordinates[elem + 1] = center_x,
                   !.last_x_for_row[level(g.dag, elem) + 1] =
                      IF is_left_to_right(s1.order)
                      THEN <<center_x + Position_distance_to_right(VG_pos(g, elem), TRUE)>>
                      ELSE <<center_x - Position_distance_to_left(VG_pos(g, elem), TRUE)>>,
                   !.sched_idx[level(g.dag, elem) + 1] = @ + 1]
      RECURSIVE loop(_, _)
      loop(s1, k) == IF k > Len(v) THEN s1 ELSE loop(step(s1, v[k]), k + 1)
  IN  loop(s, 1)

\* The assert_eq of verify_vertical holds for every element of v.
verify_vertical(g, v) ==
  \A i \in 2..Len(v) : level(g.dag, v[i]) + 1 = level(g.dag, v[i - 1])

\* An is_vertical_ready that takes every vertical that is not yet placed.
is_vertical_ready_NotPlaced(s, g, idx) == s.vl[idx + 1] # <<>>

is_vertical_ready(s, g, idx) ==
  LET is_next_avail_in_row(node, row_idx) ==
        /\ s.sched_idx[row_idx + 1] < Len(row(g.dag, row_idx))
        /\ IF is_left_to_right(s.order)
           THEN row(g.dag, row_idx)[s.sched_idx[row_idx + 1] + 1] = node
           ELSE row(g.dag, row_idx)[Len(row(g.dag, row_idx)) - s.sched_idx[row_idx + 1]] = node
  IN  /\ s.vl[idx + 1] # <<>>
      /\ \A k \in 1..Len(s.vl[idx + 1]) :
            is_next_avail_in_row(s.vl[idx + 1][k], level(g.dag, s.vl[idx + 1][k]))

\* schedule.  place is the body of the for loop for a vertical that is ready,
\* pass the for loop from the vertical i on, while the while loop.  A pass
\* that places no vertical leaves the scheduler as it was, so the loop runs for
\* ever; this is kept as a panic.
schedule(s, g) ==
  LET place(s1, i, v) ==
        [place_vertical(s1, g, v, first_schedule_x(s1, g, v))
           EXCEPT !.vl[i + 1] = <<>>, !.to_place = @ - 1]
      RECURSIVE pass(_, _)
      pass(s1, i) ==
        IF i >= Len(s1.vl) THEN s1
        ELSE pass(IF is_vertical_ready(s1, g, i) THEN place(s1, i, s1.vl[i + 1]) ELSE s1,
                  i + 1)
      RECURSIVE while(_), progress(_, _)
      progress(s1, s2) ==
        IF s2.to_place = s1.to_place THEN [s1 EXCEPT !.panic = "schedule does not terminate"]
        ELSE while(s2)
      while(s1) == IF s1.to_place = 0 THEN s1 ELSE progress(s1, pass(s1, 0))
  IN  IF s.panic # "none" THEN s
      ELSE IF \E i \in 1..Len(s.vl) : ~verify_vertical(g, s.vl[i])
      THEN [s EXCEPT !.panic = "assertion failed: (left == right)"]
      ELSE while(s)

\* do_it with what it computed on the way: the placed graph g, the four
\* vertical lists, in the order in which it computes them, and the four
\* placements and the sched_idx of the schedulers at their end.  Its end is the average of the four
\* placements, then align_to_left.
BK_do_it(g) ==
  LET verticals ==
        <<get_verticals(compute_alignment(g, "RightToLeft")),
          get_verticals(compute_alignment(g, "RightToLeft")),
          get_verticals(compute_alignment(g, "LeftToRight")),
          get_verticals(compute_alignment(g, "LeftToRight"))>>
      schedulers(vls) ==
        <<schedule(Scheduler_new(g, vls[1], "RightToLeft"), g),
          schedule(Scheduler_new(g, vls[2], "LeftToRight"), g),
          schedule(Scheduler_new(g, vls[3], "RightToLeft"), g),
          schedule(Scheduler_new(g, vls[4], "LeftToRight"), g)>>
      average(scs) ==
        IF \E i \in 1..4 : scs[i].panic # "none"
        THEN VG_panic(g, scs[CHOOSE i \in 1..4 :
                               scs[i].panic # "none"
                                 /\ \A j \in 1..(i - 1) : scs[j].panic = "none"].panic)
        ELSE simple_align_to_left(
               [g EXCEPT !.pos =
                  [h \in DOMAIN @ |->
                     Position_set_x(@[h],
                       (scs[1].x_coordinates[h] + scs[2].x_coordinates[h]
                          + scs[3].x_coordinates[h] + scs[4].x_coordinates[h]) \div 4)]])
      placed(vls, scs) ==
        [g |-> average(scs),
         verticals |-> [i \in 1..4 |-> vls[i].verticals],
         xs |-> [i \in 1..4 |-> scs[i].x_coordinates],
         sched_idx |-> [i \in 1..4 |-> scs[i].sched_idx]]
      scheduled(vls) == placed(vls, schedulers(vls))
  IN  scheduled(verticals)

(***************************************************************************)
(* core/geometry.rs: do_boxes_intersect, and topo/placer/verifier.rs.      *)
(* f64::EPSILON is far less than one unit of length: a whole number is     *)
(* below it when it is 0, and the quotient of a difference that is not 0   *)
(* by a length of the model is never below it.                             *)
(***************************************************************************)
approx_eq_f64(x, y) ==
  IF x = 0 THEN Abs(y) = 0
  ELSE IF y = 0 THEN Abs(x) = 0
  ELSE Abs(x - y) = 0

smaller_than_or_equal_to_f64(x, y) == IF x > y THEN FALSE ELSE approx_eq_f64(x, y)

do_boxes_intersect(p1, p2) ==
  LET overlap_x == /\ smaller_than_or_equal_to_f64(p2[1].x, p1[2].x)
                   /\ smaller_than_or_equal_to_f64(p1[1].x, p2[2].x)
      overlap_y == /\ smaller_than_or_equal_to_f64(p2[1].y, p1[2].y)
                   /\ smaller_than_or_equal_to_f64(p1[1].y, p2[2].y)
  IN  overlap_x /\ overlap_y

\* verify_order_in_rank returns the message of the first assertion that
\* fails, "none" when it returns.  first_node stays the first node of the row.
verify_order_in_rank(g) ==
  LET check(first_node, curr_node) ==
        IF do_boxes_intersect(Position_bbox(VG_pos(g, first_node), TRUE),
                              Position_bbox(VG_pos(g, curr_node), TRUE))
        THEN "Boxes must not intersect"
        ELSE IF ~(Position_bbox(VG_pos(g, first_node), TRUE)[1].x
                    < Position_bbox(VG_pos(g, curr_node), TRUE)[1].x)
        THEN "The order of the boxes must be sequential on the x axis"
        ELSE "none"
      RECURSIVE in_row(_, _), rows(_)
      in_row(r, k) ==
        IF k > Len(row(g.dag, r)) THEN rows(r + 1)
        ELSE IF check(row(g.dag, r)[1], row(g.dag, r)[k]) # "none"
        THEN check(row(g.dag, r)[1], row(g.dag, r)[k])
        ELSE in_row(r, k + 1)
      rows(r) == IF r >= num_levels(g.dag) THEN "none" ELSE in_row(r, 2)
  IN  rows(0)

verifier_do_it(g) ==
  LET verified(v) == IF v = "none" THEN g ELSE VG_panic(g, v)
  IN  verified(verify_order_in_rank(g))

(***************************************************************************)
(* Position::align_to_right and segment_rect_intersection of               *)
(* core/geometry.rs, single_pred and single_succ of adt/dag.rs, and        *)
(* topo/placer/edge_fixer.rs.  An infinite bound is the empty sequence, a   *)
(* finite one the sequence of its value.                                   *)
(***************************************************************************)
Position_align_to_right(p, x) ==
  [p EXCEPT !.middle.x = x - (p.size.x \div 2) - (p.halo.x \div 2)]

in_range(range, x) ==
  /\ (range[1] = <<>> \/ x >= range[1][1])
  /\ (range[2] = <<>> \/ x <= range[2][1])

\* The line through the segment is y = a x + b with a = dy / dx.  The model
\* evaluates it exactly: at(x) is the floor of the value and whether the
\* value is whole, computed without the product dy * (x - seg.0.x).
segment_rect_intersection(seg, rect) ==
  LET RECURSIVE muldiv(_, _, _)
      muldiv(a, b, c) ==
        IF b = 0 THEN [q |-> 0, r |-> 0]
        ELSE LET h == muldiv(a, b \div 2, c)
                 s == 2 * h.r + (b % 2) * a
             IN  [q |-> 2 * h.q + (s \div c), r |-> s % c]
      dx == seg[2].x - seg[1].x
      dy == seg[2].y - seg[1].y
      at(x) ==
        LET n == x - seg[1].x
            m == muldiv(IF (dx < 0) # (n < 0) THEN 0 - dy ELSE dy, Abs(n), Abs(dx))
        IN  [floor |-> seg[1].y + m.q, whole |-> m.r = 0]
      lt(y, v) == y.floor < v
      gt(y, v) == y.floor > v \/ (y.floor = v /\ ~y.whole)
      x_above == seg[1].x < rect[1].x /\ seg[2].x < rect[1].x
      x_below == seg[1].x > rect[2].x /\ seg[2].x > rect[2].x
      y_above == seg[1].y < rect[1].y /\ seg[2].y < rect[1].y
      y_below == seg[1].y > rect[2].y /\ seg[2].y > rect[2].y
      above == lt(at(rect[1].x), rect[1].y) /\ lt(at(rect[2].x), rect[1].y)
      below == gt(at(rect[1].x), rect[2].y) /\ gt(at(rect[2].x), rect[2].y)
  IN  IF seg[1].x = seg[2].x THEN seg[2].x >= rect[1].x /\ seg[2].x <= rect[2].x
      ELSE IF x_above \/ x_below THEN FALSE
      ELSE IF y_above \/ y_below THEN FALSE
      ELSE ~(above \/ below)

single_pred(d, node) ==
  IF Len(predecessors(d, node)) = 1 THEN <<predecessors(d, node)[1]>> ELSE <<>>

single_succ(d, node) ==
  IF Len(successors(d, node)) = 1 THEN <<successors(d, node)[1]>> ELSE <<>>

\* The bounds, and the assertion that fails, if one does.
compute_bounds_for_node(g, node) ==
  LET rw == row(g.dag, level(g.dag, node))
      idx == Position(rw, node)
      leftmost == IF idx > 1 THEN <<Position_bbox(VG_pos(g, rw[idx - 1]), TRUE)[2].x>> ELSE <<>>
      rightmost ==
        IF idx < Len(rw) THEN <<Position_bbox(VG_pos(g, rw[idx + 1]), TRUE)[1].x>> ELSE <<>>
      loc == Position_center(VG_pos(g, node))
  IN  [range |-> <<leftmost, rightmost>>,
       panic |-> IF leftmost # <<>> /\ ~(loc.x >= leftmost[1])
                 THEN "assertion failed: loc.x >= leftmost"
                 ELSE IF rightmost # <<>> /\ ~(loc.x <= rightmost[1])
                 THEN "assertion failed: loc.x <= rightmost"
                 ELSE "none"]

\* The connectors that straighten_edge collects, in the order of its loops.
to_straighten(g) ==
  LET hits_row(rw, seg) ==
        \E k \in 1..Len(rw) :
           segment_rect_intersection(seg, Position_bbox(VG_pos(g, rw[k]), FALSE))
      candidate(rw, elem) ==
        /\ is_connector(g, elem)
        /\ single_pred(g.dag, elem) # <<>>
        /\ single_succ(g.dag, elem) # <<>>
        /\ ~is_connector(g, single_pred(g.dag, elem)[1])
        /\ ~is_connector(g, single_succ(g.dag, elem)[1])
        /\ ~hits_row(rw, <<Position_center(VG_pos(g, single_pred(g.dag, elem)[1])),
                           Position_center(VG_pos(g, single_succ(g.dag, elem)[1]))>>)
      RECURSIVE elems(_, _)
      elems(rw, k) ==
        IF k > Len(rw) THEN <<>>
        ELSE (IF candidate(rw, rw[k]) THEN <<rw[k]>> ELSE <<>>) \o elems(rw, k + 1)
      RECURSIVE rows(_)
      rows(row_idx) ==
        IF row_idx >= num_levels(g.dag) - 1 THEN <<>>
        ELSE elems(row(g.dag, row_idx), 1) \o rows(row_idx + 1)
  IN  rows(1)

\* A straighten_edge that moves every candidate to its midpoint, whatever the
\* bounds.
straighten_edge_Unbounded(g) ==
  LET new_pos(g1, elem) ==
        (Position_center(VG_pos(g1, single_pred(g1.dag, elem)[1])).x
           + Position_center(VG_pos(g1, single_succ(g1.dag, elem)[1])).x) \div 2
      move(g1, elem, bounds) ==
        IF bounds.panic # "none" THEN VG_panic(g1, bounds.panic)
        ELSE VG_set_pos(g1, elem, Position_set_x(VG_pos(g1, elem), new_pos(g1, elem)))
      RECURSIVE loop(_, _, _)
      loop(g1, lst, i) ==
        IF g1.dag.panic # "none" \/ i > Len(lst) THEN g1
        ELSE loop(move(g1, lst[i], compute_bounds_for_node(g1, lst[i])), lst, i + 1)
  IN  IF num_levels(g.dag) = 0 THEN VG_panic(g, "attempt to subtract with overflow")
      ELSE loop(g, to_straighten(g), 1)

straighten_edge(g) ==
  LET new_pos(g1, elem) ==
        (Position_center(VG_pos(g1, single_pred(g1.dag, elem)[1])).x
           + Position_center(VG_pos(g1, single_succ(g1.dag, elem)[1])).x) \div 2
      move(g1, elem, bounds) ==
        IF bounds.panic # "none" THEN VG_panic(g1, bounds.panic)
        ELSE IF in_range(bounds.range, new_pos(g1, elem))
        THEN VG_set_pos(g1, elem, Position_set_x(VG_pos(g1, elem), new_pos(g1, elem)))
        ELSE g1
      RECURSIVE loop(_, _, _)
      loop(g1, lst, i) ==
        IF g1.dag.panic # "none" \/ i > Len(lst) THEN g1
        ELSE loop(move(g1, lst[i], compute_bounds_for_node(g1, lst[i])), lst, i + 1)
  IN  IF num_levels(g.dag) = 0 THEN VG_panic(g, "attempt to subtract with overflow")
      ELSE loop(g, to_straighten(g), 1)

handle_disconnected_nodes(g) ==
  LET align(g1, elem, bounds) ==
        IF bounds.panic # "none" THEN VG_panic(g1, bounds.panic)
        ELSE IF bounds.range[1] # <<>>
        THEN VG_set_pos(g1, elem,
                        Position_align_to_left(VG_pos(g1, elem), bounds.range[1][1] + EPSILON))
        ELSE IF bounds.range[2] # <<>>
        THEN VG_set_pos(g1, elem,
                        Position_align_to_right(VG_pos(g1, elem), bounds.range[2][1] - EPSILON))
        ELSE g1
      node(g1, elem) ==
        IF successors(g1.dag, elem) # <<>> \/ predecessors(g1.dag, elem) # <<>> THEN g1
        ELSE align(g1, elem, compute_bounds_for_node(g1, elem))
      RECURSIVE elems(_, _, _)
      elems(g1, rw, k) ==
        IF g1.dag.panic # "none" \/ k > Len(rw) THEN g1
        ELSE elems(node(g1, rw[k]), rw, k + 1)
      RECURSIVE rows(_, _)
      rows(g1, row_idx) ==
        IF g1.dag.panic # "none" \/ row_idx >= num_levels(g1.dag) THEN g1
        ELSE rows(elems(g1, row(g1.dag, row_idx), 1), row_idx + 1)
  IN  rows(g, 0)

align_self_edges(g) ==
  LET found_before(g1, rw, i) ==
        \E p \in 1..Len(predecessors(g1.dag, rw[i])) :
           Position(rw, predecessors(g1.dag, rw[i])[p]) \in 1..(i - 1)
      found_after(g1, rw, i) ==
        \E p \in 1..Len(predecessors(g1.dag, rw[i])) :
           Position(rw, predecessors(g1.dag, rw[i])[p]) > i
      node(g1, rw, i) ==
        IF ~is_connector(g1, rw[i]) THEN g1
        ELSE IF found_before(g1, rw, i)
        THEN VG_set_pos(g1, rw[i],
                        Position_align_to_left(VG_pos(g1, rw[i]),
                                               Position_bbox(VG_pos(g1, rw[i - 1]), TRUE)[2].x))
        ELSE IF found_after(g1, rw, i)
        THEN VG_set_pos(g1, rw[i],
                        Position_align_to_right(VG_pos(g1, rw[i]),
                                                Position_bbox(VG_pos(g1, rw[i + 1]), TRUE)[1].x))
        ELSE g1
      RECURSIVE elems(_, _, _)
      elems(g1, rw, i) ==
        IF i > Len(rw) THEN g1 ELSE elems(node(g1, rw, i), rw, i + 1)
      RECURSIVE rows(_, _)
      rows(g1, row_idx) ==
        IF row_idx >= num_levels(g1.dag) THEN g1
        ELSE rows(elems(g1, row(g1.dag, row_idx), 1), row_idx + 1)
  IN  rows(g, 0)

\* The moves are collected from the positions as they are on entry, at most
\* one for each row, and made at the end.
adjust_crossing_edges(g) ==
  LET offsets == <<15, 25, 35, 45, 55, 65, 75, 85, 95, -10, 20, -20, 30, -30, 40, -40,
                   50, -50, 90, -90>>
      is_intersecting_any(segs, rects) ==
        \E s \in 1..Len(segs), r \in 1..Len(rects) :
           segment_rect_intersection(segs[s], rects[r])
      boxes(hs) == [k \in 1..Len(hs) |-> Position_bbox(VG_pos(g, hs[k]), FALSE)]
      all(row_idx) ==
        (IF row_idx > 1 THEN row(g.dag, row_idx - 1) ELSE <<>>)
          \o (IF row_idx < num_levels(g.dag) - 1 THEN row(g.dag, row_idx + 1) ELSE <<>>)
      bounds(rw, i) ==
        boxes((IF i > 1 THEN <<rw[i - 1]>> ELSE <<>>)
                \o (IF i < Len(rw) THEN <<rw[i + 1]>> ELSE <<>>))
      pos_all(row_idx, rw, i, pred, succ) ==
        bounds(rw, i) \o boxes(SelectSeq(all(row_idx), LAMBDA e : e # pred /\ e # succ))
      moved(p0, p1, p2, k) ==
        <<<<p0, Point_add(p1, Point(0, offsets[k] * Pixel))>>,
          <<Point_add(p1, Point(0, offsets[k] * Pixel)), p2>>>>
      free(row_idx, rw, i, pred, succ) ==
        {k \in 1..Len(offsets) :
           ~is_intersecting_any(moved(Position_center(VG_pos(g, pred)),
                                      Position_center(VG_pos(g, rw[i])),
                                      Position_center(VG_pos(g, succ)), k),
                                pos_all(row_idx, rw, i, pred, succ))}
      crossing(rw, i, pred, succ) ==
        is_intersecting_any(<<<<Position_center(VG_pos(g, pred)),
                                Position_center(VG_pos(g, rw[i]))>>,
                              <<Position_center(VG_pos(g, rw[i])),
                                Position_center(VG_pos(g, succ))>>>>,
                            bounds(rw, i))
      first(S) == CHOOSE k \in S : \A j \in S : k <= j
      RECURSIVE elems(_, _, _)
      elems(row_idx, rw, i) ==
        IF i > Len(rw) THEN <<>>
        ELSE IF ~is_connector(g, rw[i]) \/ single_pred(g.dag, rw[i]) = <<>>
                \/ single_succ(g.dag, rw[i]) = <<>>
        THEN elems(row_idx, rw, i + 1)
        ELSE IF crossing(rw, i, single_pred(g.dag, rw[i])[1], single_succ(g.dag, rw[i])[1])
                /\ free(row_idx, rw, i, single_pred(g.dag, rw[i])[1],
                        single_succ(g.dag, rw[i])[1]) # {}
        THEN <<<<rw[i], offsets[first(free(row_idx, rw, i, single_pred(g.dag, rw[i])[1],
                                           single_succ(g.dag, rw[i])[1]))]>>>>
        ELSE elems(row_idx, rw, i + 1)
      RECURSIVE to_move(_)
      to_move(row_idx) ==
        IF row_idx >= num_levels(g.dag) THEN <<>>
        ELSE elems(row_idx, row(g.dag, row_idx), 1) \o to_move(row_idx + 1)
      RECURSIVE loop(_, _, _)
      loop(g1, lst, i) ==
        IF i > Len(lst) THEN g1
        ELSE loop(VG_set_pos(g1, lst[i][1],
                             Position_translate(VG_pos(g1, lst[i][1]),
                                                Point(0, lst[i][2] * Pixel))),
                  lst, i + 1)
  IN  loop(g, to_move(0), 1)

(***************************************************************************)
(* The placement pipeline: a graph of boxes of given sizes is built, then  *)
(* do_it lowers it and Placer::layout places it stage by stage.            *)
(***************************************************************************)
BoxSizes == {Point(20 * Pixel, 20 * Pixel), Point(100 * Pixel, 40 * Pixel)}

PVG == [nodes |-> nodes, edges |-> edges, self_edges |-> self_edges, dag |-> dag, pos |-> elem_pos]

SetPVG(g) == SetVG(g) /\ elem_pos' = g.pos

PlaceAddNode ==
  /\ pc = "build" /\ dag.panic = "none"
  /\ Len(nodes) < MaxPlaceNodes
  /\ Len(elem_pos) = Len(nodes)
  /\ \E size \in BoxSizes :
       /\ SetVG(VG_add_node(VG, Element_create("n")))
       /\ elem_pos' = Append(elem_pos, Element_create_pos(size))
  /\ op' = "VisualGraph::add_node"
  /\ UNCHANGED <<pc, disable_opt, local_edges, processed, cross, svg_vars, unit_vars, bk>>

PlaceAddEdge ==
  /\ pc = "build" /\ dag.panic = "none"
  /\ Len(edges) < MaxPlaceEdges
  /\ Len(elem_pos) = Len(nodes)
  /\ \E arrow \in InputArrows, a \in Handles(dag), b \in Handles(dag) :
       SetVG(VG_add_edge(VG, arrow, a, b))
  /\ op' = "VisualGraph::add_edge"
  /\ UNCHANGED <<pc, disable_opt, local_edges, processed, cross, svg_vars, unit_vars, place_vars>>

PlaceLower ==
  /\ pc = "build" /\ dag.panic = "none"
  /\ Len(elem_pos) = Len(nodes)
  /\ \E d \in BOOLEAN :
       /\ disable_opt' = d
       /\ SetPVG(lower(PVG, d))
  /\ pc' = "resized"
  /\ op' = "lower"
  /\ UNCHANGED <<local_edges, processed, cross, svg_vars, unit_vars, bk>>

PlaceMoveBetweenRows ==
  /\ pc = "resized" /\ dag.panic = "none"
  /\ SetPVG(move_between_rows_do_it(PVG))
  /\ pc' = "moved"
  /\ op' = "move_between_rows::do_it"
  /\ UNCHANGED <<disable_opt, local_edges, processed, cross, svg_vars, unit_vars, bk>>

PlaceSimple ==
  /\ pc = "moved" /\ dag.panic = "none"
  /\ SetPVG(simple_do_it(PVG))
  /\ pc' = "simple"
  /\ op' = "simple::do_it"
  /\ UNCHANGED <<disable_opt, local_edges, processed, cross, svg_vars, unit_vars, bk>>

PlaceBK ==
  /\ pc = "simple" /\ dag.panic = "none"
  /\ \E r \in {BK_do_it(PVG)} :
       /\ SetPVG(r.g)
       /\ bk' = [verticals |-> r.verticals, xs |-> r.xs, sched_idx |-> r.sched_idx]
  /\ pc' = "bk"
  /\ op' = "BK::do_it"
  /\ UNCHANGED <<disable_opt, local_edges, processed, cross, svg_vars, unit_vars>>

PlaceNext ==
  \/ PlaceAddNode
  \/ PlaceAddEdge
  \/ PlaceLower
  \/ PlaceMoveBetweenRows
  \/ PlaceSimple
  \/ PlaceBK

PlaceSpec == Init /\ [][PlaceNext]_vars

(***************************************************************************)
(* The placement pipeline on graphs with long edges: the edges go from a   *)
(* node to a node added after it, so that three edges on three nodes give  *)
(* an edge that spans three rows next to a labelled edge.                  *)
(***************************************************************************)
PlaceAddForwardEdge ==
  /\ pc = "build" /\ dag.panic = "none"
  /\ Len(edges) < MaxForwardEdges
  /\ Len(elem_pos) = Len(nodes)
  /\ \E arrow \in InputArrows, a \in Handles(dag), b \in Handles(dag) :
       /\ a < b
       /\ SetVG(VG_add_edge(VG, arrow, a, b))
  /\ op' = "VisualGraph::add_edge"
  /\ UNCHANGED <<pc, disable_opt, local_edges, processed, cross, svg_vars, unit_vars, place_vars>>

ForwardNext ==
  \/ PlaceAddNode
  \/ PlaceAddForwardEdge
  \/ PlaceLower
  \/ PlaceMoveBetweenRows
  \/ PlaceSimple
  \/ PlaceBK

ForwardSpec == Init /\ [][ForwardNext]_vars

(***************************************************************************)
(* align_to_left on its own: boxes are added, moved with                   *)
(* pos_mut(n).set_x(x), and the graph is aligned.                          *)
(***************************************************************************)
\* The X coordinates that set_x is called with.
XChoices == {0 - 50 * Pixel, 0, 300 * Pixel, MaxX * Pixel}

AlignSetX ==
  /\ pc = "build" /\ dag.panic = "none"
  /\ Len(elem_pos) = Len(nodes)
  /\ \E n \in Handles(dag), x \in XChoices :
       elem_pos' = [elem_pos EXCEPT ![n + 1] = Position_set_x(@, x)]
  /\ op' = "Position::set_x"
  /\ UNCHANGED <<dag, vg_vars, svg_vars, unit_vars, bk>>

AlignToLeft ==
  /\ pc = "build" /\ dag.panic = "none"
  /\ Len(elem_pos) = Len(nodes)
  /\ SetPVG(simple_align_to_left(PVG))
  /\ pc' = "aligned"
  /\ op' = "align_to_left"
  /\ UNCHANGED <<disable_opt, local_edges, processed, cross, svg_vars, unit_vars, bk>>

AlignNext ==
  \/ PlaceAddNode
  \/ AlignSetX
  \/ AlignToLeft

AlignSpec == Init /\ [][AlignNext]_vars

(***************************************************************************)
(* verifier::do_it on its own: boxes are added, moved with                 *)
(* pos_mut(n).set_x(x), and the graph is verified.                         *)
(***************************************************************************)
VerifierDoIt ==
  /\ pc = "build" /\ dag.panic = "none"
  /\ Len(elem_pos) = Len(nodes)
  /\ SetPVG(verifier_do_it(PVG))
  /\ pc' = "verified"
  /\ op' = "verifier::do_it"
  /\ UNCHANGED <<disable_opt, local_edges, processed, cross, svg_vars, unit_vars, bk>>

VerifyNext ==
  \/ PlaceAddNode
  \/ AlignSetX
  \/ VerifierDoIt

VerifySpec == Init /\ [][VerifyNext]_vars

(***************************************************************************)
(* The rest of Placer::layout: after BK the verifier runs, and then        *)
(* edge_fixer::do_it, which is modelled one call at a time.                *)
(***************************************************************************)
PlaceVerifier ==
  /\ pc = "bk" /\ dag.panic = "none"
  /\ SetPVG(verifier_do_it(PVG))
  /\ pc' = "bk_verified"
  /\ op' = "verifier::do_it"
  /\ UNCHANGED <<disable_opt, local_edges, processed, cross, svg_vars, unit_vars, bk>>

FixDisconnectedNodes ==
  /\ pc = "bk_verified" /\ dag.panic = "none"
  /\ SetPVG(handle_disconnected_nodes(PVG))
  /\ pc' = "disconnected"
  /\ op' = "handle_disconnected_nodes"
  /\ UNCHANGED <<disable_opt, local_edges, processed, cross, svg_vars, unit_vars, bk>>

FixSelfEdges ==
  /\ pc = "disconnected" /\ dag.panic = "none"
  /\ SetPVG(align_self_edges(PVG))
  /\ pc' = "self_edges"
  /\ op' = "align_self_edges"
  /\ UNCHANGED <<disable_opt, local_edges, processed, cross, svg_vars, unit_vars, bk>>

FixAlignToLeft ==
  /\ pc = "self_edges" /\ dag.panic = "none"
  /\ SetPVG(simple_align_to_left(PVG))
  /\ pc' = "aligned"
  /\ op' = "align_to_left"
  /\ UNCHANGED <<disable_opt, local_edges, processed, cross, svg_vars, unit_vars, bk>>

FixStraightenEdge ==
  /\ pc = "aligned" /\ dag.panic = "none"
  /\ SetPVG(straighten_edge(PVG))
  /\ pc' = "straightened"
  /\ op' = "straighten_edge"
  /\ UNCHANGED <<disable_opt, local_edges, processed, cross, svg_vars, unit_vars, bk>>

FixAdjustCrossingEdges ==
  /\ pc = "straightened" /\ dag.panic = "none"
  /\ SetPVG(adjust_crossing_edges(PVG))
  /\ pc' = "fixed"
  /\ op' = "adjust_crossing_edges"
  /\ UNCHANGED <<disable_opt, local_edges, processed, cross, svg_vars, unit_vars, bk>>

FixNext ==
  \/ PlaceAddNode
  \/ PlaceAddEdge
  \/ PlaceLower
  \/ PlaceMoveBetweenRows
  \/ PlaceSimple
  \/ PlaceBK
  \/ PlaceVerifier
  \/ FixDisconnectedNodes
  \/ FixSelfEdges
  \/ FixAlignToLeft
  \/ FixStraightenEdge
  \/ FixAdjustCrossingEdges

FixSpec == Init /\ [][FixNext]_vars

(***************************************************************************)
(* swap_crossed_edges on its own, one call of swap_crossed_edges_on_row at *)
(* a time.  The DAG is built level by level: a node goes to the level of   *)
(* the last node or below it, an edge goes from a level to the next, and   *)
(* the edges are added in the order of their ends.  order is the sequence  *)
(* of the rows of one pass of the while loop, k the place in it, changed   *)
(* the flag of the pass, and swapped whether any pass changed a row.       *)
(***************************************************************************)
SwapNewNode ==
  /\ swap_run.state = "idle" /\ dag.panic = "none"
  /\ len(dag) < MaxSwapNodes
  /\ \E lvl \in 0..MaxSwapLevel :
       /\ \A n \in Handles(dag) : level(dag, n) <= lvl
       /\ dag' = update_node_rank_level(new_node(dag), len(dag), lvl, -1)
  /\ op' = "new_node"
  /\ UNCHANGED <<vg_vars, post_vars>>

SwapAddEdge ==
  /\ swap_run.state = "idle" /\ dag.panic = "none"
  /\ NumEdges(dag) < MaxSwapEdges
  /\ \E a \in Handles(dag), b \in Handles(dag) :
       /\ level(dag, b) = level(dag, a) + 1
       /\ \A x \in Handles(dag) :
            \A i \in 1..Len(successors(dag, x)) :
               x < a \/ (x = a /\ successors(dag, x)[i] < b)
       /\ dag' = add_edge(dag, a, b)
  /\ op' = "add_edge"
  /\ UNCHANGED <<vg_vars, post_vars>>

SwapStart ==
  /\ swap_run.state = "idle" /\ dag.panic = "none"
  /\ \E dir \in {"Both", "Up", "Down"} :
       LET down == IF is_down(dir) THEN [i \in 1..num_levels(dag) |-> i - 1] ELSE <<>>
           up == IF is_up(dir) THEN [i \in 1..num_levels(dag) |-> num_levels(dag) - i]
                 ELSE <<>>
       IN  swap_run' = [state |-> IF down \o up = <<>> THEN "done" ELSE "running",
                        dir |-> dir, order |-> down \o up, k |-> 1,
                        changed |-> FALSE, swapped |-> FALSE]
  /\ op' = "swap_crossed_edges"
  /\ UNCHANGED <<dag, vg_vars, svg_vars, place_vars, attach_vars, map_vars, median_vars, lex_vars>>

SwapRow ==
  /\ swap_run.state = "running" /\ dag.panic = "none"
  /\ \E s \in {swap_crossed_edges_on_row(dag, swap_run.order[swap_run.k], swap_run.dir)} :
       /\ dag' = s.dag
       /\ swap_run' =
            IF swap_run.k < Len(swap_run.order)
            THEN [swap_run EXCEPT !.k = @ + 1, !.changed = @ \/ s.changed,
                                  !.swapped = @ \/ s.changed]
            ELSE IF swap_run.changed \/ s.changed
            THEN [swap_run EXCEPT !.k = 1, !.changed = FALSE, !.swapped = TRUE]
            ELSE [swap_run EXCEPT !.state = "done"]
  /\ op' = "swap_crossed_edges_on_row"
  /\ UNCHANGED <<vg_vars, svg_vars, place_vars, attach_vars, map_vars, median_vars, lex_vars>>

SwapNext == SwapNewNode \/ SwapAddEdge \/ SwapStart \/ SwapRow

SwapSpec == Init /\ [][SwapNext]_vars

\* The while loop of swap_crossed_edges goes on as long as it can.
SwapLiveSpec == SwapSpec /\ WF_vars(SwapRow)

(***************************************************************************)
(* NodeAttachInfo on its own: new, add and get_verticals, as in            *)
(* test_extract_verticals; or the pipeline up to BK::do_it, which builds   *)
(* its own NodeAttachInfo in compute_alignment.                            *)
(***************************************************************************)
AttachNew ==
  /\ pc = "build" /\ Len(nodes) = 0
  /\ Len(attach_info.above) = 0
  /\ \E size \in 1..MaxAttachNodes : attach_info' = NodeAttachInfo_new(size)
  /\ UNCHANGED <<dag, op, vg_vars, svg_vars, place_vars, map_vars, median_vars, lex_vars, vertical_list, swap_run>>

AttachAdd ==
  /\ attach_info.panic = "none" /\ vertical_list.panic = "not called"
  /\ \E from \in 0..(Len(attach_info.above) - 1), to \in 0..(Len(attach_info.above) - 1) :
       attach_info' = NodeAttachInfo_add(attach_info, from, to)
  /\ UNCHANGED <<dag, op, vg_vars, svg_vars, place_vars, map_vars, median_vars, lex_vars, vertical_list, swap_run>>

AttachGetVerticals ==
  /\ attach_info.panic = "none" /\ vertical_list.panic = "not called"
  /\ Len(attach_info.above) > 0
  /\ vertical_list' = get_verticals(attach_info)
  /\ UNCHANGED <<dag, op, vg_vars, svg_vars, place_vars, map_vars, median_vars, lex_vars, attach_info, swap_run>>

VerticalsNext ==
  \/ AttachNew
  \/ AttachAdd
  \/ AttachGetVerticals
  \/ (Len(attach_info.above) = 0 /\ PlaceNext)

VerticalsSpec == Init /\ [][VerticalsNext]_vars

(***************************************************************************)
(* adt/map.rs: ScopedMap.  The stack is a sequence of scopes, a scope the  *)
(* sequence of its pairs <<key, value>>; a failed assertion is recorded in *)
(* the field panic.  Option::None is -1 and a HashMap is a function on the *)
(* set of its keys.                                                        *)
(***************************************************************************)
ScopedMap_push(m) == [m EXCEPT !.stack = Append(@, <<>>)]

ScopedMap_is_empty(m) == Len(m.stack) = 0

ScopedMap_pop(m) ==
  IF ~ScopedMap_is_empty(m) THEN [m EXCEPT !.stack = SubSeq(@, 1, Len(@) - 1)] ELSE m

\* insert; found is the 1-based position of the first pair of the innermost
\* scope with the key, 0 when the loop ends without a match.
ScopedMap_insert(m, key, val) ==
  LET scope == m.stack[Len(m.stack)]
      RECURSIVE find(_)
      find(i) == IF i > Len(scope) THEN 0 ELSE IF scope[i][1] = key THEN i ELSE find(i + 1)
      store(found) ==
        IF found # 0 THEN [m EXCEPT !.stack[Len(m.stack)][found] = <<key, val>>]
        ELSE [m EXCEPT !.stack[Len(m.stack)] = Append(@, <<key, val>>)]
  IN  IF ScopedMap_is_empty(m) THEN [m EXCEPT !.panic = "assertion failed: !self.is_empty()"]
      ELSE store(find(1))

\* flatten: HashMap::insert of every pair, scope after scope.
ScopedMap_flatten(m) ==
  LET hash_insert(map, k, v) == [x \in DOMAIN map \cup {k} |-> IF x = k THEN v ELSE map[x]]
      RECURSIVE pairs(_, _, _), scopes(_, _)
      pairs(map, scope, i) ==
        IF i > Len(scope) THEN map
        ELSE pairs(hash_insert(map, scope[i][1], scope[i][2]), scope, i + 1)
      scopes(map, s) ==
        IF s > Len(m.stack) THEN map ELSE scopes(pairs(map, m.stack[s], 1), s + 1)
  IN  scopes([x \in {} |-> 0], 1)

\* A get that looks through the scopes from the outermost one.
ScopedMap_get_OutermostFirst(m, key) ==
  LET RECURSIVE pairs(_, _), scopes(_)
      pairs(s, i) ==
        IF i > Len(m.stack[s]) THEN scopes(s + 1)
        ELSE IF m.stack[s][i][1] = key THEN m.stack[s][i][2]
        ELSE pairs(s, i + 1)
      scopes(s) == IF s > Len(m.stack) THEN -1 ELSE pairs(s, 1)
  IN  scopes(1)

\* get: the scopes in reverse, the pairs of a scope in order.
ScopedMap_get(m, key) ==
  LET RECURSIVE pairs(_, _), scopes(_)
      pairs(s, i) ==
        IF i > Len(m.stack[s]) THEN scopes(s - 1)
        ELSE IF m.stack[s][i][1] = key THEN m.stack[s][i][2]
        ELSE pairs(s, i + 1)
      scopes(s) == IF s = 0 THEN -1 ELSE pairs(s, 1)
  IN  scopes(Len(m.stack))

ScopedMap_has(m, key) == ScopedMap_get(m, key) # -1

(***************************************************************************)
(* A ScopedMap driven through push, pop and insert.  scope_log records,    *)
(* for every open scope, the last value inserted into it for each key, -1  *)
(* for a key that was not inserted into it.                                *)
(***************************************************************************)
Keys == 1..MaxKey

Values == 1..MaxValue

MapPush ==
  /\ scoped_map.panic = "none"
  /\ Len(scoped_map.stack) < MaxScopes
  /\ scoped_map' = ScopedMap_push(scoped_map)
  /\ scope_log' = Append(scope_log, [k \in Keys |-> -1])
  /\ UNCHANGED <<dag, op, vg_vars, svg_vars, place_vars, attach_vars, median_vars, lex_vars, swap_run>>

MapPop ==
  /\ scoped_map.panic = "none"
  /\ scoped_map' = ScopedMap_pop(scoped_map)
  /\ scope_log' = SubSeq(scope_log, 1, Len(scope_log) - 1)
  /\ UNCHANGED <<dag, op, vg_vars, svg_vars, place_vars, attach_vars, median_vars, lex_vars, swap_run>>

MapInsert ==
  /\ scoped_map.panic = "none"
  /\ \E k \in Keys, v \in Values :
       /\ scoped_map' = ScopedMap_insert(scoped_map, k, v)
       /\ scope_log' = IF scope_log = <<>> THEN scope_log
                       ELSE [scope_log EXCEPT ![Len(scope_log)][k] = v]
  /\ UNCHANGED <<dag, op, vg_vars, svg_vars, place_vars, attach_vars, median_vars, lex_vars, swap_run>>

MapNext ==
  \/ MapPush
  \/ MapPop
  \/ MapInsert

MapSpec == Init /\ [][MapNext]_vars

(***************************************************************************)
(* weighted_median on its own: a list is built with Vec::push and handed   *)
(* to weighted_median.  An f64 is a whole number of halves here, so that   *)
(* the mean of two whole numbers is exact.                                 *)
(***************************************************************************)
\* The whole numbers -1 .. MaxNumber.
Numbers == {2 * n : n \in (-1)..MaxNumber}

MedianPush ==
  /\ median_out.panic = "not called"
  /\ Len(median_in) < MaxMedianLen
  /\ \E x \in Numbers : median_in' = Append(median_in, x)
  /\ UNCHANGED <<dag, op, vg_vars, svg_vars, place_vars, attach_vars, map_vars, lex_vars, median_out, swap_run>>

MedianCall ==
  /\ median_out.panic = "not called"
  /\ median_out' = weighted_median(median_in)
  /\ UNCHANGED <<dag, op, vg_vars, svg_vars, place_vars, attach_vars, map_vars, lex_vars, median_in, swap_run>>

MedianNext ==
  \/ MedianPush
  \/ MedianCall

MedianSpec == Init /\ [][MedianNext]_vars

(***************************************************************************)
(* The lexer of the GraphViz format.  A char is a string of one character, *)
(* the input a list of chars, '\0' the char NUL.  A Lexer is the record of *)
(* its fields input, pos and ch; a function that takes &mut self returns   *)
(* the lexer next to its value.                                            *)
(***************************************************************************)
NUL == "\\0"

\* char::is_ascii_whitespace, is_ascii_control (of the chars below 128 that
\* the model writes), is_ascii_digit and is_numeric, is_ascii_alphabetic.
Whitespace == {" ", "\t", "\n", "\f", "\r"}

Control == {NUL, "\t", "\n", "\f", "\r"}

Digits == {"0", "1", "2", "3", "4", "5", "6", "7", "8", "9"}

Letters ==
  {"a", "b", "c", "d", "e", "f", "g", "h", "i", "j", "k", "l", "m",
   "n", "o", "p", "q", "r", "s", "t", "u", "v", "w", "x", "y", "z",
   "A", "B", "C", "D", "E", "F", "G", "H", "I", "J", "K", "L", "M",
   "N", "O", "P", "Q", "R", "S", "T", "U", "V", "W", "X", "Y", "Z"}

\* The variants of Token: Identifier carries its text, Error its position.
Token(kind) == [kind |-> kind, text |-> <<>>, pos |-> 0]

Identifier(text) == [kind |-> "Identifier", text |-> text, pos |-> 0]

Error(pos) == [kind |-> "Error", text |-> <<>>, pos |-> pos]

has_next(l) == l.pos < Len(l.input)

read_char(l) ==
  IF ~has_next(l) THEN [l EXCEPT !.ch = NUL]
  ELSE [l EXCEPT !.ch = l.input[l.pos + 1], !.pos = l.pos + 1]

Lexer_new(input) == read_char([input |-> input, pos |-> 0, ch |-> NUL])

skip_whitespace(l) ==
  LET RECURSIVE loop(_, _)
      loop(s, changed) ==
        IF s.ch \in Whitespace THEN loop(read_char(s), TRUE)
        ELSE [l |-> s, changed |-> changed]
  IN  loop(l, FALSE)

skip_comment(l) ==
  LET RECURSIVE block(_, _)
      block(s, prev) ==
        IF has_next(s)
        THEN LET s1 == read_char(s)
             IN IF prev = "*" /\ s1.ch = "/" THEN read_char(s1) ELSE block(s1, s1.ch)
        ELSE s
      RECURSIVE line(_)
      line(s) ==
        IF has_next(s)
        THEN LET s1 == read_char(s)
             IN IF s1.ch \in Control THEN read_char(s1) ELSE line(s1)
        ELSE s
      l1 == read_char(l)
  IN  IF l.ch # "/" THEN [l |-> l, changed |-> FALSE]
      ELSE IF l1.ch = "*" THEN [l |-> block(l1, NUL), changed |-> TRUE]
      ELSE IF l1.ch = "/" THEN [l |-> line(l1), changed |-> TRUE]
      ELSE [l |-> l1, changed |-> TRUE]

read_identifier(l) ==
  LET RECURSIVE loop(_, _)
      loop(s, result) ==
        IF s.ch \in Letters \cup Digits \cup {"_"}
        THEN loop(read_char(s), Append(result, s.ch))
        ELSE [l |-> s, result |-> result]
  IN  loop(l, <<>>)

read_number(l) ==
  LET RECURSIVE loop(_, _, _)
      loop(s, result, period) ==
        IF s.ch \in Digits \cup {"."} /\ ~(s.ch = "." /\ period)
        THEN loop(read_char(s), Append(result, s.ch), period \/ s.ch = ".")
        ELSE [l |-> s, result |-> result]
  IN  loop(l, <<>>, FALSE)

read_string(l) ==
  LET RECURSIVE loop(_, _)
      loop(s, result) ==
        IF s.ch = "\"" THEN [l |-> s, tok |-> Identifier(result)]
        ELSE IF s.ch = "\\"
        THEN LET s1 == read_char(s)
                 c == IF s1.ch \in {"n", "l"} THEN "\n" ELSE s1.ch
             IN loop(read_char(s1), Append(result, c))
        ELSE IF s.ch = NUL THEN [l |-> s, tok |-> Error(s.pos)]
        ELSE loop(read_char(s), Append(result, s.ch))
  IN  loop(read_char(l), <<>>)

\* next_token returns the lexer and the token.  The branches that assign tok
\* fall to the read_char at the end; the branches of an identifier, of a
\* number and of an unknown char return where they are.
next_token(l) ==
  LET RECURSIVE skip(_)
      skip(s) ==
        LET c == skip_comment(s)
            w == skip_whitespace(c.l)
        IN IF c.changed THEN skip(c.l) ELSE IF w.changed THEN skip(w.l) ELSE w.l
      s0 == skip(l)
      single ==
        [c \in {"=", ";", ":", "[", "]", "{", "}", ",", "<", ">"} |->
           CASE c = "=" -> "Equal" [] c = ";" -> "Semicolon" [] c = ":" -> "Colon"
             [] c = "[" -> "OpenBracket" [] c = "]" -> "CloseBracket"
             [] c = "{" -> "OpenBrace" [] c = "}" -> "CloseBrace" [] c = "," -> "Comma"
             [] c = "<" -> "HtmlStart" [] c = ">" -> "HtmlEnd"]
      keyword(name) ==
        CASE name = <<"g", "r", "a", "p", "h">> -> Token("GraphKW")
          [] name = <<"n", "o", "d", "e">> -> Token("NodeKW")
          [] name = <<"e", "d", "g", "e">> -> Token("EdgeKW")
          [] name = <<"d", "i", "g", "r", "a", "p", "h">> -> Token("DigraphKW")
          [] name = <<"s", "t", "r", "i", "c", "t">> -> Token("StrictKW")
          [] name = <<"s", "u", "b", "g", "r", "a", "p", "h">> -> Token("SubgraphKW")
          [] OTHER -> Identifier(name)
      s1 == read_char(s0)
      str == read_string(s0)
      num == read_number(s0)
      neg == read_number(s1)
      name == read_identifier(s0)
  IN  IF s0.ch \in DOMAIN single THEN [l |-> s1, tok |-> Token(single[s0.ch])]
      ELSE IF s0.ch = "\"" THEN [l |-> read_char(str.l), tok |-> str.tok]
      ELSE IF s0.ch = "-"
      THEN IF s1.ch = ">" THEN [l |-> read_char(s1), tok |-> Token("ArrowRight")]
           ELSE IF s1.ch = "-" THEN [l |-> read_char(s1), tok |-> Token("ArrowLine")]
           ELSE IF s1.ch \in Digits
           THEN [l |-> read_char(neg.l), tok |-> Identifier(<<"-">> \o neg.result)]
           ELSE [l |-> read_char(s1), tok |-> Error(s1.pos)]
      ELSE IF s0.ch = NUL THEN [l |-> s1, tok |-> Token("EOF")]
      ELSE IF s0.ch \in Letters THEN [l |-> name.l, tok |-> keyword(name.result)]
      ELSE IF s0.ch \in Digits THEN [l |-> num.l, tok |-> Identifier(num.result)]
      ELSE [l |-> s0, tok |-> Error(s0.pos)]

\* The chars of the inputs, and the inputs.
Chars == {"-", "1", ".", ";", " ", "a", ">", "/", "\""}

Inputs == UNION {[1..n -> Chars] : n \in 0..MaxInputLen}

\* Lexer::from_string over one of the inputs.
LexFromString ==
  /\ token.kind = "none"
  /\ lexer.input = <<>>
  /\ \E input \in Inputs \ {<<>>} : lexer' = Lexer_new(input)
  /\ UNCHANGED <<dag, op, vg_vars, svg_vars, place_vars, attach_vars, map_vars, median_vars, token, swap_run>>

\* One call of next_token.
LexNextToken ==
  /\ LET r == next_token(lexer)
     IN /\ lexer' = r.l
        /\ token' = r.tok
  /\ UNCHANGED <<dag, op, vg_vars, svg_vars, place_vars, attach_vars, map_vars, median_vars, swap_run>>

LexNext ==
  \/ LexFromString
  \/ LexNextToken

LexSpec == Init /\ [][LexNext]_vars

(***************************************************************************)
(* The rank optimizer one node at a time: try_to_sink_node is public and   *)
(* is called on a DAG built and ranked through the interface of the DAG.   *)
(***************************************************************************)
TryToSinkNode ==
  /\ dag.panic = "none"
  /\ \E node \in Handles(dag) :
       \E r \in {try_to_sink_node(dag, node)} :
         /\ dag' = r.dag
         /\ op' = IF r.res THEN "try_to_sink_node true" ELSE "try_to_sink_node false"
  /\ UNCHANGED <<vg_vars, post_vars>>

SinkNext ==
  \/ NewNode
  \/ AddEdge
  \/ RecomputeNodeRanks
  \/ UpdateNodeRankLevel
  \/ TryToSinkNode

SinkSpec == Init /\ [][SinkNext]_vars

(***************************************************************************)
(* Properties of the ranked DAG.                                           *)
(***************************************************************************)
\* The number of occurrences of n over all rows.
OccurrencesInRanks(d, n) ==
  LET RECURSIVE Sum(_)
      Sum(i) == IF i = 0 THEN 0 ELSE Count(d.ranks[i], n) + Sum(i - 1)
  IN Sum(Len(d.ranks))

\* C1: after any sequence of new_node, add_edge and remove_edge, b occurs in
\* successors(a) as often as a occurs in predecessors(b), for every ordered
\* pair (a, b), and the assert_eq of remove_edge never fails.
SuccPredSymmetry ==
  /\ dag.panic # "pred-succ mismatch"
  /\ \A a \in Handles(dag), b \in Handles(dag) :
       Count(successors(dag, a), b) = Count(predecessors(dag, b), a)

\* One of two parallel edges a->b has just been removed.
SuccPredSymmetryWitness ==
  /\ op = "remove_edge true"
  /\ \E a \in Handles(dag), b \in Handles(dag) :
       a # b /\ Count(successors(dag, a), b) = 1 /\ Count(predecessors(dag, b), a) = 1

\* C2: while no operation has panicked, every node handle occurs exactly once
\* over all rows, in the row of its level, and the rows hold nothing else.
RankCoverage ==
  dag.panic = "none" =>
    /\ \A n \in Handles(dag) :
         /\ OccurrencesInRanks(dag, n) = 1
         /\ level(dag, n) < num_levels(dag)
         /\ Count(row(dag, level(dag, n)), n) = 1
    /\ count_nodes_in_ranks(dag) = len(dag)

\* A node has been moved in front of a marker of a row above row 0.
RankCoverageWitness ==
  /\ dag.panic = "none"
  /\ op = "update_node_rank_level"
  /\ \E l \in 1..(num_levels(dag) - 1) : Len(row(dag, l)) >= 2

\* The optimizers have run on a DAG with an edge and two rows.
RankCoverageOptimizedWitness ==
  /\ dag.panic = "none"
  /\ op = "EdgeCrossOptimizer::optimize"
  /\ NumEdges(dag) >= 1
  /\ num_levels(dag) >= 2

(***************************************************************************)
(* Paths of the DAG, defined on the edge relation alone.                   *)
(***************************************************************************)
SuccSet(d, n) == {successors(d, n)[i] : i \in 1..Len(successors(d, n))}

PredSet(d, n) == {predecessors(d, n)[i] : i \in 1..Len(predecessors(d, n))}

\* The nodes reached from the set S by following edges, S included.
RECURSIVE ReachClosure(_, _)
ReachClosure(d, S) ==
  LET T == S \cup UNION {SuccSet(d, n) : n \in S}
  IN IF T = S THEN S ELSE ReachClosure(d, T)

\* The nodes reached from n by a path of at least one edge.
Descendants(d, n) == ReachClosure(d, SuccSet(d, n))

\* There is a path of zero or more edges from a to b.
Reachable(d, a, b) == a = b \/ b \in Descendants(d, a)

Acyclic(d) == \A n \in Handles(d) : n \notin Descendants(d, n)

SetMax(S) == CHOOSE x \in S : \A y \in S : y <= x

\* The number of edges of the longest path that ends at n, in an acyclic DAG.
RECURSIVE LongestPathTo(_, _)
LongestPathTo(d, n) ==
  IF PredSet(d, n) = {} THEN 0
  ELSE 1 + SetMax({LongestPathTo(d, p) : p \in PredSet(d, n)})

\* C5: recompute_node_ranks on a non-empty DAG with an acyclic edge set does
\* not panic and gives each node the number of edges of the longest path that
\* ends at it, 0 for a node without predecessor.
LongestPathLayering ==
  (op = "recompute_node_ranks" /\ ~is_empty(dag) /\ Acyclic(dag)) =>
    /\ dag.panic = "none"
    /\ \A n \in Handles(dag) : level(dag, n) = LongestPathTo(dag, n)

\* The chain h0 -> h1 -> h2 has been ranked: levels 0, 1, 2.
LongestPathLayeringWitness ==
  /\ op = "recompute_node_ranks"
  /\ len(dag) = 3
  /\ successors(dag, 0) = <<1>> /\ successors(dag, 1) = <<2>> /\ successors(dag, 2) = <<>>
  /\ dag.levels = <<0, 1, 2>>
  /\ dag.ranks = <<(<<0>>), (<<1>>), (<<2>>)>>

(***************************************************************************)
(* Properties of the lowering.                                             *)
(***************************************************************************)
\* C3: while to_valid_dag runs and ever after, the DAG has no directed cycle
\* and no self-loop and verify does not report a cycle; the step on the edge
\* a -> b adds nothing to the DAG when a = b, adds one b -> a when a was
\* reachable from b, and adds one a -> b otherwise.
ToValidDagKeepsAcyclic ==
  /\ [](Acyclic(dag) /\ dag.panic # "We found a cycle!")
  /\ [][(pc = "to_valid_dag" /\ processed < Len(local_edges)) =>
          LET a == local_edges[processed + 1].lst[1]
              b == local_edges[processed + 1].lst[2]
          IN IF a = b
             THEN dag' = dag /\ edges' = edges
             ELSE /\ dag'.panic = "none"
                  /\ NumEdges(dag') = NumEdges(dag) + 1
                  /\ IF Reachable(dag, b, a)
                     THEN /\ Count(successors(dag', b), a) = Count(successors(dag, b), a) + 1
                          /\ edges'[Len(edges')].lst = <<b, a>>
                     ELSE /\ Count(successors(dag', a), b) = Count(successors(dag, a), b) + 1
                          /\ edges'[Len(edges')].lst = <<a, b>>]_vars

\* The edges 0 -> 1, 1 -> 1 and 1 -> 0 have been processed: the self-loop is
\* set aside and the antiparallel edge is stored as a second 0 -> 1.
ToValidDagKeepsAcyclicWitness ==
  /\ pc = "to_valid_dag" /\ processed = 3 /\ dag.panic = "none"
  /\ local_edges[1].lst = <<0, 1>>
  /\ local_edges[2].lst = <<1, 1>>
  /\ local_edges[3].lst = <<1, 0>>
  /\ successors(dag, 0) = <<1, 1>>
  /\ successors(dag, 1) = <<>>
  /\ Len(self_edges) = 1
  /\ edges[2].lst = <<0, 1>>

\* Every step of every edge path goes to a strictly higher level.
PathsAscend(g) ==
  \A e \in 1..Len(g.edges) : \A i \in 1..(Len(g.edges[e].lst) - 1) :
    level(g.dag, g.edges[e].lst[i]) < level(g.dag, g.edges[e].lst[i + 1])

\* C4: the lowering of a graph with at least one node never fails with
\* 'Invalid edge', with or without optimizations: after ranking and rank
\* optimization every step of every edge path goes to a strictly higher level,
\* and once split_long_edges has returned every DAG edge spans one level.
LoweringSplitsLongEdges ==
  (pc # "build" /\ Len(nodes) >= 1) =>
    /\ dag.panic # "Invalid edge"
    /\ (pc = "split" /\ dag.panic = "none") => PathsAscend(VG)
    /\ (pc = "lowered" /\ dag.panic = "none") =>
         \A a \in Handles(dag) : \A b \in SuccSet(dag, a) :
           level(dag, b) = level(dag, a) + 1

\* A graph has been lowered with optimizations: the rank optimizer has moved
\* a node below the level of its longest path, and a long edge got a connector.
LoweringSplitsLongEdgesWitness ==
  /\ pc = "lowered" /\ dag.panic = "none" /\ ~disable_opt
  /\ \E c \in Handles(dag) : nodes[c + 1] = empty_connector
  /\ \E n \in Handles(dag) :
       /\ nodes[n + 1].shape = "Box"
       /\ level(dag, n) > LongestPathTo(dag, n)

\* C6: the row orders that EdgeCrossOptimizer::optimize leaves have at most
\* as many crossings as the row orders at its entry, and are the entry orders
\* or the orders seen right after one of the swap scans.
CrossingsNeverIncrease ==
  (pc = "expand_self_edges" /\ ~disable_opt /\ dag.panic = "none") =>
    /\ count_crossed_edges(dag, dag.ranks) <= count_crossed_edges(dag, cross.entry)
    /\ dag.ranks = cross.entry \/ dag.ranks \in cross.snaps

\* The optimizer has left fewer crossings than it found.
CrossingsNeverIncreaseWitness ==
  /\ pc = "expand_self_edges" /\ ~disable_opt /\ dag.panic = "none"
  /\ count_crossed_edges(dag, dag.ranks) < count_crossed_edges(dag, cross.entry)
  /\ dag.ranks # cross.entry

\* C9: do_it on a graph without nodes and edges runs without panic.
EmptyGraphCompletes ==
  (pc # "build" /\ Len(nodes) = 0) => dag.panic = "none"

\* The edge list es is one directed cycle, given in the order of the cycle.
IsSingleCycle(es) ==
  /\ Len(es) >= 2
  /\ \A i \in 1..(Len(es) - 1) : es[i].lst[2] = es[i + 1].lst[1]
  /\ es[Len(es)].lst[2] = es[1].lst[1]
  /\ \A i \in 1..Len(es), j \in 1..Len(es) : i # j => es[i].lst[1] # es[j].lst[1]

\* C10: when the input is one directed cycle given in order, to_valid_dag
\* stores every edge but the last unchanged and the last one reversed: its
\* node list is swapped, the line ends of its arrow are swapped and the ports
\* of its arrow are swapped, so the line end meant for the destination is now
\* the start of the arrow, at the same node.
SingleCycleReversesClosingEdge ==
  (pc = "to_valid_dag" /\ processed = Len(local_edges) /\ IsSingleCycle(local_edges)) =>
    LET k == Len(local_edges)
        last == local_edges[k]
    IN /\ dag.panic = "none"
       /\ Len(edges) = k
       /\ \A i \in 1..(k - 1) : edges[i] = local_edges[i]
       /\ edges[k].lst = <<last.lst[2], last.lst[1]>>
       /\ edges[k].arrow.start = last.arrow.end
       /\ edges[k].arrow.end = last.arrow.start
       /\ edges[k].arrow.src_port = last.arrow.dst_port
       /\ edges[k].arrow.dst_port = last.arrow.src_port
       /\ edges[k].arrow.text = last.arrow.text

\* The cycle 0 -> 1 -> 2 -> 0 has been processed, its last arrow going from the
\* port e to the port w: it is stored as 0 -> 2, from w to e, head first.
SingleCycleReversesClosingEdgeWitness ==
  /\ pc = "to_valid_dag" /\ processed = 3
  /\ local_edges[1].lst = <<0, 1>>
  /\ local_edges[2].lst = <<1, 2>>
  /\ local_edges[3].lst = <<2, 0>>
  /\ local_edges[3].arrow.src_port = "e"
  /\ edges[3].lst = <<0, 2>>
  /\ edges[3].arrow.start = "Arrow"
  /\ edges[3].arrow.src_port = "w"

\* C8: two runs of the pipeline on the same input produce identical SVG
\* strings: whenever both runs have finalized their writers after the same
\* draw calls, the two documents are equal.
SvgRunsAgree ==
  (svg_out[1] # <<>> /\ svg_out[2] # <<>>) => svg_out[1] = svg_out[2]

\* The pairs <<u, v>> of nodes of one row of the DAG with u before v in the
\* order of the row.
RowPairs ==
  {p \in Handles(dag) \X Handles(dag) :
     /\ level(dag, p[1]) = level(dag, p[2])
     /\ Position(row(dag, level(dag, p[1])), p[1]) < Position(row(dag, level(dag, p[2])), p[2])}

\* C7: after BK::do_it, for every row and every two nodes u before v in the
\* order of the row, the final center X of u is strictly less than that of v
\* and the halo-padded box of u ends at or before the halo-padded box of v
\* begins, whenever every halo-padded width is positive.
BKKeepsRowOrder ==
  (/\ pc = "bk" /\ dag.panic = "none"
   /\ \A h \in 1..Len(elem_pos) : Position_size(elem_pos[h], TRUE).x > 0)
    => \A p \in RowPairs :
         /\ Position_center(elem_pos[p[1] + 1]).x < Position_center(elem_pos[p[2] + 1]).x
         /\ Position_bbox(elem_pos[p[1] + 1], TRUE)[2].x <= Position_bbox(elem_pos[p[2] + 1], TRUE)[1].x

\* BK::do_it has placed a row of a box and a connector of different widths,
\* with a vertical of two nodes in each of its four alignments.
BKKeepsRowOrderWitness ==
  /\ pc = "bk" /\ dag.panic = "none"
  /\ \A h \in 1..Len(elem_pos) : Position_size(elem_pos[h], TRUE).x > 0
  /\ \E p \in RowPairs :
       /\ nodes[p[1] + 1].shape # nodes[p[2] + 1].shape
       /\ Position_size(elem_pos[p[1] + 1], TRUE).x # Position_size(elem_pos[p[2] + 1], TRUE).x
  /\ \A i \in 1..4 : \E k \in 1..Len(bk.verticals[i]) : Len(bk.verticals[i][k]) >= 2

(***************************************************************************)
(* Properties of split_text_edges and expand_self_edges.                   *)
(***************************************************************************)
\* The positions of the edges of the list es whose arrow carries a text.
LabelledEdges(es) == {i \in 1..Len(es) : es[i].arrow.text # ""}

\* The edges of the list es that go from a to b and carry a text.
LabelledBetween(es, a, b) == {i \in LabelledEdges(es) : es[i].lst = <<a, b>>}

\* C11: split_text_edges does not panic; it adds one connector per labelled
\* edge and nothing else; the edge a -> b with a text gets a connector c of
\* its own whose shape carries the text, the path [a, c, b] and an arrow that
\* differs in its emptied text alone, one a -> b leaves the DAG and a -> c and
\* c -> b enter it; an edge without text keeps its entry and its DAG edge; and
\* a graph that is one labelled edge a -> b is lowered with the connector at
\* level(a) + 1 = level(b) - 1.
SplitTextEdgesContract ==
  /\ [][(pc = "to_valid_dag" /\ pc' = "split_long_edges") =>
          LET conn(i) == Len(nodes) + Cardinality({j \in LabelledEdges(edges) : j < i})
          IN /\ dag'.panic = "none"
             /\ Len(nodes') = Len(nodes) + Cardinality(LabelledEdges(edges))
             /\ \A h \in 1..Len(nodes) : nodes'[h] = nodes[h]
             /\ len(dag') = Len(nodes')
             /\ Len(edges') = Len(edges)
             /\ \A i \in 1..Len(edges) :
                  IF i \in LabelledEdges(edges)
                  THEN /\ nodes'[conn(i) + 1] = [shape |-> "Connector", text |-> edges[i].arrow.text]
                       /\ edges'[i].lst = <<edges[i].lst[1], conn(i), edges[i].lst[2]>>
                       /\ edges'[i].arrow = [edges[i].arrow EXCEPT !.text = ""]
                       /\ successors(dag', conn(i)) = <<edges[i].lst[2]>>
                       /\ predecessors(dag', conn(i)) = <<edges[i].lst[1]>>
                       /\ Count(successors(dag', edges[i].lst[1]), conn(i)) = 1
                       /\ Count(predecessors(dag', edges[i].lst[2]), conn(i)) = 1
                  ELSE edges'[i] = edges[i]
             /\ \A a \in Handles(dag), b \in Handles(dag) :
                  /\ Count(successors(dag', a), b) =
                       Count(successors(dag, a), b) - Cardinality(LabelledBetween(edges, a, b))
                  /\ Count(predecessors(dag', b), a) =
                       Count(predecessors(dag, b), a) - Cardinality(LabelledBetween(edges, a, b))]_vars
  /\ [](( /\ pc = "lowered" /\ Len(nodes) = 3 /\ Len(edges) = 1
          /\ Len(edges[1].lst) = 3 /\ edges[1].lst[1] # edges[1].lst[3]
          /\ nodes[edges[1].lst[2] + 1].text # "")
        => /\ dag.panic = "none"
           /\ level(dag, edges[1].lst[2]) = level(dag, edges[1].lst[1]) + 1
           /\ level(dag, edges[1].lst[2]) = level(dag, edges[1].lst[3]) - 1)

\* split_text_edges has run on two parallel labelled edges 0 -> 1 and an edge
\* without text: each labelled edge has its own connector and the plain edge
\* is still a DAG edge.
SplitTextEdgesContractWitness ==
  /\ pc = "split_long_edges" /\ op = "split_text_edges" /\ dag.panic = "none"
  /\ Len(edges) = 3
  /\ \E i \in 1..3, j \in 1..3, k \in 1..3 :
       /\ i # j
       /\ Len(edges[i].lst) = 3 /\ Len(edges[j].lst) = 3
       /\ edges[i].lst[1] = edges[j].lst[1] /\ edges[i].lst[3] = edges[j].lst[3]
       /\ edges[i].lst[2] # edges[j].lst[2]
       /\ nodes[edges[i].lst[2] + 1] = [shape |-> "Connector", text |-> "t"]
       /\ Len(edges[k].lst) = 2
       /\ Count(successors(dag, edges[k].lst[1]), edges[k].lst[2]) = 1

\* The positions of the self-edges of the edge list es, in the order of the
\* list.
SelfEdges(es) ==
  LET RECURSIVE collect(_)
      collect(i) ==
        IF i = 0 THEN <<>>
        ELSE IF es[i].lst[1] = es[i].lst[2] THEN Append(collect(i - 1), i)
        ELSE collect(i - 1)
  IN collect(Len(es))

WithoutOne(s, t, e) == \E p \in 1..Len(s) : s[p] = e /\ t = RemoveAt(s, p)

\* C13: on every DAG that new_node, add_edge, remove_edge and the ranking
\* operations build, remove_edge(a, b) returns true exactly when b occurs in
\* successors(a); it then takes one occurrence of b out of successors(a) and
\* one occurrence of a out of predecessors(b) and changes nothing else;
\* otherwise it returns false and changes nothing; so when a -> b is present
\* once, a second remove_edge(a, b) returns false.  A step of remove_edge that
\* returns true takes one edge out of the DAG, and every step of remove_edge
\* leaves the rows and levels as they are.
RemoveEdgeContract ==
  /\ [](dag.panic = "none" =>
         \A a \in Handles(dag), b \in Handles(dag) :
           LET r == remove_edge(dag, a, b)
           IN /\ r.res = (Count(successors(dag, a), b) >= 1)
              /\ r.dag.panic = "none"
              /\ r.dag.ranks = dag.ranks /\ r.dag.levels = dag.levels
              /\ IF r.res
                 THEN /\ WithoutOne(successors(dag, a), successors(r.dag, a), b)
                      /\ WithoutOne(predecessors(dag, b), predecessors(r.dag, b), a)
                      /\ \A n \in Handles(dag) :
                           /\ n # a => successors(r.dag, n) = successors(dag, n)
                           /\ n # b => predecessors(r.dag, n) = predecessors(dag, n)
                      /\ Count(successors(dag, a), b) = 1 =>
                           /\ ~remove_edge(r.dag, a, b).res
                           /\ remove_edge(r.dag, a, b).dag = r.dag
                 ELSE r.dag = dag)
  /\ [][/\ op' = "remove_edge true" =>
             (NumEdges(dag') = NumEdges(dag) - 1 /\ dag'.ranks = dag.ranks
              /\ dag'.levels = dag.levels)
        /\ op' = "remove_edge false" => dag' = dag]_vars

\* One of the two edges of a DAG of three nodes has just been removed; the
\* other one is still there, and removing the first again returns false.
RemoveEdgeContractWitness ==
  /\ op = "remove_edge true" /\ dag.panic = "none"
  /\ len(dag) = 3 /\ NumEdges(dag) = 1
  /\ \E a \in Handles(dag), b \in Handles(dag) :
       a # b /\ Count(successors(dag, a), b) = 0 /\ ~remove_edge(dag, a, b).res

\* The row t holds the nodes of the row s, each as often as s.
SameNodes(s, t) ==
  /\ Len(s) = Len(t)
  /\ \A i \in 1..Len(s) : Count(t, s[i]) = Count(s, s[i])

\* C14: a run of EdgeCrossOptimizer::optimize that returns leaves the number
\* of rows, the nodes of every row, the level of every node and every
\* successor and predecessor list as they were; the order inside the rows is
\* all that may differ.
EdgeCrossFrame ==
  [][(pc = "cross_opt" /\ ~disable_opt /\ dag'.panic = "none") =>
       /\ num_levels(dag') = num_levels(dag)
       /\ \A l \in 0..(num_levels(dag) - 1) : SameNodes(row(dag, l), row(dag', l))
       /\ dag'.levels = dag.levels
       /\ dag'.nodes = dag.nodes]_vars

\* The optimizer has returned with a row of at least two nodes in an order
\* other than the one it found, in a DAG of at least three edges.
EdgeCrossFrameWitness ==
  /\ pc = "expand_self_edges" /\ ~disable_opt /\ dag.panic = "none"
  /\ NumEdges(dag) >= 3
  /\ \E l \in 0..(num_levels(dag) - 1) :
       Len(row(dag, l)) >= 2 /\ row(dag, l) # cross.entry[l + 1]

(***************************************************************************)
(* Properties of the placement helpers.                                    *)
(***************************************************************************)
\* The left edges of the halo-padded boxes of the nodes.
HaloLeftEdges == {Position_bbox(elem_pos[h], TRUE)[1].x : h \in 1..Len(elem_pos)}

\* C15: right after align_to_left on a graph that is not empty, the least
\* left edge of the halo-padded boxes is 0, wherever the nodes were and
\* whatever their sizes.
AlignToLeftTouchesZero ==
  (op = "align_to_left" /\ Len(nodes) >= 1) =>
    /\ 0 \in HaloLeftEdges
    /\ \A x \in HaloLeftEdges : x >= 0

\* The number of occurrences of the node n over the verticals vs.
OccurrencesInVerticals(vs, n) ==
  LET RECURSIVE Sum(_)
      Sum(i) == IF i = 0 THEN 0 ELSE Count(vs[i], n) + Sum(i - 1)
  IN Sum(Len(vs))

\* The verticals vs hold each of the handles 0..size-1 once and nothing else.
PartitionsNodes(vs, size) ==
  /\ \A n \in 0..(size - 1) : OccurrencesInVerticals(vs, n) = 1
  /\ \A i \in 1..Len(vs) : Len(vs[i]) >= 1 /\ \A j \in 1..Len(vs[i]) : vs[i][j] \in 0..(size - 1)

\* The vertical v is one maximal chain of the links info, from its bottom up.
IsMaximalChain(info, v) ==
  /\ info.below[v[1] + 1] = -1
  /\ info.above[v[Len(v)] + 1] = -1
  /\ \A j \in 1..(Len(v) - 1) :
       info.above[v[j] + 1] = v[j + 1] /\ info.below[v[j + 1] + 1] = v[j]

\* The nodes reached from n by following the links above, n left out.
AboveOf(info, n) ==
  LET RECURSIVE walk(_, _)
      walk(m, seen) ==
        IF info.above[m + 1] = -1 \/ info.above[m + 1] \in seen THEN seen
        ELSE walk(info.above[m + 1], seen \cup {info.above[m + 1]})
  IN walk(n, {})

\* No node is above itself.
LinksAcyclic(info) == \A n \in 0..(Len(info.above) - 1) : n \notin AboveOf(info, n)

\* The verticals of the four alignments of BK::do_it partition the nodes of
\* the graph and pass verify_vertical.
AlignmentVerticalsAscend ==
  (pc = "bk" /\ dag.panic = "none") =>
    \A i \in 1..4 :
      /\ PartitionsNodes(bk.verticals[i], len(dag))
      /\ \A k \in 1..Len(bk.verticals[i]) : verify_vertical(VG, bk.verticals[i][k])

InnermostValue(log, k) ==
  LET RECURSIVE look(_)
      look(s) == IF s = 0 THEN -1 ELSE IF log[s][k] # -1 THEN log[s][k] ELSE look(s - 1)
  IN look(Len(log))

\* C17: after any sequence of push, insert and pop that does not insert into a
\* map without scope, get(k) is the value of the last insert of k into the
\* innermost open scope that k was inserted into, and None when there is no
\* such scope; has(k) tells whether there is one; flatten() has exactly the
\* keys for which get returns a value, each with that value; and a pop of a
\* map with a scope removes its innermost scope and nothing else.
ScopedMapLookup ==
  /\ [](scoped_map.panic = "none" =>
         /\ Len(scoped_map.stack) = Len(scope_log)
         /\ \A k \in Keys :
              /\ ScopedMap_get(scoped_map, k) = InnermostValue(scope_log, k)
              /\ ScopedMap_has(scoped_map, k) = (\E s \in 1..Len(scope_log) : scope_log[s][k] # -1)
         /\ DOMAIN ScopedMap_flatten(scoped_map) =
              {k \in Keys : ScopedMap_get(scoped_map, k) # -1}
         /\ \A k \in DOMAIN ScopedMap_flatten(scoped_map) :
              ScopedMap_flatten(scoped_map)[k] = ScopedMap_get(scoped_map, k))
  /\ [][Len(scoped_map'.stack) < Len(scoped_map.stack) =>
          scoped_map'.stack = SubSeq(scoped_map.stack, 1, Len(scoped_map.stack) - 1)]_vars

\* As in test_scoped_map2: key 1 is bound to 1 in the first scope and to 2 in
\* the second, key 2 is bound in the second, and a third scope is open and
\* empty; get and flatten give 2 for key 1.
ScopedMapLookupWitness ==
  /\ scoped_map.panic = "none"
  /\ scoped_map.stack = <<(<<(<<1, 1>>)>>), (<<(<<1, 2>>), (<<2, 1>>)>>), (<<>>)>>
  /\ ScopedMap_get(scoped_map, 1) = 2
  /\ ScopedMap_flatten(scoped_map)[1] = 2

(***************************************************************************)
(* Properties of weighted_median.                                          *)
(***************************************************************************)
\* The number of entries of the list s that are less than x, and the number
\* of those that are greater.
CountLess(s, x) == Cardinality({i \in 1..Len(s) : s[i] < x})

CountGreater(s, x) == Cardinality({i \in 1..Len(s) : s[i] > x})

\* The entry of rank k (from 1) of the list s in ascending order.
Ranked(s, k) ==
  CHOOSE x \in {s[i] : i \in 1..Len(s)} : CountLess(s, x) < k /\ CountGreater(s, x) <= Len(s) - k

\* The list s with its entries i and j exchanged.
Exchanged(s, i, j) == [s EXCEPT ![i] = s[j], ![j] = s[i]]

\* C18: weighted_median of a list that is not empty, in whatever order, is
\* the middle entry of the list in ascending order when the length is odd and
\* the mean of the two middle entries when it is even; exchanging two entries
\* of the list does not change it; and the empty list fails the assertion
\* 'array can't be empty'.
MedianOfSorted ==
  median_out.panic # "not called" =>
    LET n == Len(median_in)
    IN IF n = 0 THEN median_out.panic = "array can't be empty"
       ELSE /\ median_out.panic = "none"
            /\ IF n % 2 = 1
               THEN median_out.val = Ranked(median_in, (n + 1) \div 2)
               ELSE 2 * median_out.val
                      = Ranked(median_in, n \div 2) + Ranked(median_in, (n \div 2) + 1)
            /\ \A i \in 1..n, j \in 1..n :
                 weighted_median(Exchanged(median_in, i, j)) = median_out

\* As in test_median: the median of a list of five numbers not in order and
\* with a repeated number is its third smallest entry.
MedianOfSortedWitness ==
  /\ median_out.panic = "none"
  /\ median_in = <<4, 2, -2, 0, 2>>
  /\ median_out.val = 2

(***************************************************************************)
(* Properties of the lexer.                                                *)
(***************************************************************************)
\* The index of the last char of the number that starts at index from of
\* input: the longest run of digits with at most one period.
NumberEnd(input, from) ==
  LET IsNumber(e) ==
        /\ \A i \in from..e : input[i] \in Digits \cup {"."}
        /\ Cardinality({i \in from..e : input[i] = "."}) <= 1
  IN  CHOOSE e \in from..Len(input) :
        /\ IsNumber(e)
        /\ \A e2 \in (e + 1)..Len(input) : ~IsNumber(e2)

\* C19: when the lexer is at a '-' that is immediately followed by a digit,
\* next_token returns the Identifier of the '-' and the number, and the call
\* after it returns the token that a lexer of the input after the number's
\* last char returns first: no char of the input is skipped.
NegativeNumberToken ==
  [][(lexer.ch = "-" /\ has_next(lexer) /\ lexer.input[lexer.pos + 1] \in Digits) =>
       LET last == NumberEnd(lexer.input, lexer.pos + 1)
           rest == SubSeq(lexer.input, last + 1, Len(lexer.input))
           following == next_token(lexer').tok
           expected == next_token(Lexer_new(rest)).tok
       IN /\ token' = Identifier(SubSeq(lexer.input, lexer.pos, last))
          /\ following.kind = expected.kind
          /\ following.text = expected.text]_vars

(***************************************************************************)
(* Properties of RankOptimizer::optimize.                                  *)
(***************************************************************************)
\* Every edge of d goes to a strictly higher level.
EdgesAscend(d) ==
  \A a \in Handles(d) : \A b \in SuccSet(d, a) : level(d, b) > level(d, a)

\* The lowest level of a successor of n, n having one.
MinSuccLevel(d, n) ==
  CHOOSE l \in {level(d, s) : s \in SuccSet(d, n)} :
    \A s \in SuccSet(d, n) : l <= level(d, s)

\* n has no more predecessors than successors, has a successor, and its
\* nearest successor is more than one level away.
Sinkable(d, n) ==
  /\ Cardinality(PredSet(d, n)) <= Cardinality(SuccSet(d, n))
  /\ SuccSet(d, n) # {}
  /\ MinSuccLevel(d, n) > level(d, n) + 1

\* C20: on a ranked DAG in which every edge goes to a strictly higher level
\* RankOptimizer::optimize returns, no node with at most as many predecessors
\* as successors and with a successor is then more than one level before its
\* nearest successor, and every node it has moved lies one level before its
\* nearest successor.
RankOptimizerFixpoint ==
  [][(op' = "RankOptimizer::optimize" /\ dag.panic = "none" /\ EdgesAscend(dag)) =>
       (/\ dag'.panic = "none"
        /\ \A n \in Handles(dag') : ~Sinkable(dag', n)
        /\ \A n \in Handles(dag') :
             level(dag', n) # level(dag, n) =>
               level(dag', n) = MinSuccLevel(dag', n) - 1)]_vars

(***************************************************************************)
(* Properties of try_to_sink_node.                                         *)
(***************************************************************************)
\* The sum over the edges a -> b of d of level(b) - level(a), an edge that
\* is listed twice counted twice.
TotalEdgeLength(d) ==
  LET RECURSIVE FromNode(_, _)
      FromNode(a, i) ==
        IF i > Len(successors(d, a)) THEN 0
        ELSE level(d, successors(d, a)[i]) - level(d, a) + FromNode(a, i + 1)
      RECURSIVE FromNodes(_)
      FromNodes(a) == IF a >= len(d) THEN 0 ELSE FromNode(a, 1) + FromNodes(a + 1)
  IN  FromNodes(0)

\* The node that a step has moved to another level.
MovedNode == CHOOSE n \in Handles(dag) : level(dag', n) # level(dag, n)

\* C21 as stated: every call of try_to_sink_node that returns true strictly
\* decreases the total edge length.
SinkStrictlyShortens ==
  [][(op' = "try_to_sink_node true") =>
       (TotalEdgeLength(dag') < TotalEdgeLength(dag))]_vars

\* C21: a call of try_to_sink_node that returns true moves one node to a
\* higher level and never increases the total edge length: the total changes
\* by the number of levels moved times (predecessors - successors) of the
\* node, so it decreases strictly when the node has fewer predecessors than
\* successors and stays the same when it has as many.
SinkNeverLengthens ==
  [][(op' = "try_to_sink_node true") =>
       (/\ Cardinality({n \in Handles(dag) : level(dag', n) # level(dag, n)}) = 1
        /\ level(dag', MovedNode) > level(dag, MovedNode)
        /\ Len(predecessors(dag, MovedNode)) <= Len(successors(dag, MovedNode))
        /\ TotalEdgeLength(dag') =
             TotalEdgeLength(dag)
               + (level(dag', MovedNode) - level(dag, MovedNode))
                 * (Len(predecessors(dag, MovedNode)) - Len(successors(dag, MovedNode))))]_vars

\* The middle node of a chain of three has been moved and the total edge
\* length is what it was.
SinkNeverLengthensWitness ==
  /\ op = "try_to_sink_node true"
  /\ dag.panic = "none"
  /\ len(dag) = 3
  /\ \E n \in Handles(dag) :
       /\ Len(predecessors(dag, n)) = 1
       /\ Len(successors(dag, n)) = 1
       /\ predecessors(dag, n)[1] # n
       /\ level(dag, successors(dag, n)[1]) = level(dag, n) + 1
       /\ level(dag, predecessors(dag, n)[1]) < level(dag, n) - 1

(***************************************************************************)
(* Properties of the edges that the alignment of BK::do_it works with.     *)
(***************************************************************************)
\* The nodes of the row i of g.
RowNodes(g, i) == {row(g.dag, i)[k] : k \in 1..Len(row(g.dag, i))}

\* The edges of g from the row i to the row i + 1, as pairs of handles.
RowEdges(g, i) ==
  {e \in RowNodes(g, i) \X RowNodes(g, i + 1) : e[2] \in SuccSet(g.dag, e[1])}

\* The strong edges among them: both ends are connectors.
StrongEdges(g, i) ==
  {e \in RowEdges(g, i) : is_connector(g, e[1]) /\ is_connector(g, e[2])}

\* The edges e and s between the rows i and i + 1 cross, by the indices of
\* their ends in the rows.
Crossing(g, i, e, s) ==
  are_edges_crossing(
    <<Position(row(g.dag, i), e[1]), Position(row(g.dag, i + 1), e[2])>>,
    <<Position(row(g.dag, i), s[1]), Position(row(g.dag, i + 1), s[2])>>)

\* C22: for two adjacent rows of the graph that BK::do_it has placed,
\* extract_edges_with_no_type2_conflict returns exactly the strong edges and
\* the other edges that cross no strong edge.
Type2ConflictFilter ==
  (pc = "bk" /\ dag.panic = "none") =>
    \A i \in 0..(num_levels(dag) - 2) :
      extract_edges_with_no_type2_conflict(PVG, row(dag, i), row(dag, i + 1))
        = StrongEdges(PVG, i)
            \cup {e \in RowEdges(PVG, i) \ StrongEdges(PVG, i) :
                    \A s \in StrongEdges(PVG, i) : ~Crossing(PVG, i, e, s)}

\* The links of the vertical lists vs: <<u, v>> when v is linked upward to u,
\* that is when u follows v in a vertical, which is listed from its bottom up.
LinksOf(vs) ==
  UNION {{<<vs[k][j + 1], vs[k][j]>> : j \in 1..(Len(vs[k]) - 1)} : k \in 1..Len(vs)}

\* C23: in each of the four alignments of BK::do_it, a node v is linked
\* upward only to a node u whose edge (u, v) is in the set returned by
\* get_valid_edges.
AlignmentUsesValidEdges ==
  (pc = "bk" /\ dag.panic = "none") =>
    \A i \in 1..4 : LinksOf(bk.verticals[i]) \subseteq get_valid_edges(PVG)

(***************************************************************************)
(* Properties of Scheduler::schedule.                                      *)
(***************************************************************************)
\* C24: for each of the four vertical lists that BK::do_it computes on a
\* lowered graph, schedule returns: no pass of its loop leaves every unplaced
\* vertical waiting; when it has returned the sched_idx of every row is the
\* length of the row, and since a vertical is placed only when its members are
\* the next ones of their rows in the scan order, the nodes of a row got their
\* coordinates in the order of the row.
ScheduleTerminates ==
  pc = "bk" =>
    /\ dag.panic # "schedule does not terminate"
    /\ dag.panic = "none" =>
         \A i \in 1..4 :
           /\ \A r \in 0..(num_levels(dag) - 1) : bk.sched_idx[i][r + 1] = Len(row(dag, r))
           /\ \A p \in RowPairs : bk.xs[i][p[1] + 1] <= bk.xs[i][p[2] + 1]

\* BK::do_it has returned on a graph with a row of two nodes in the order of
\* their handles, so that in the scan from the right the vertical of the
\* lower handle has to wait, and with a vertical of three nodes in every
\* alignment; every row has been scheduled to its end.
ScheduleTerminatesWitness ==
  /\ pc = "bk" /\ dag.panic = "none"
  /\ \E p \in RowPairs : p[1] < p[2]
  /\ \A i \in 1..4 : \E k \in 1..Len(bk.verticals[i]) : Len(bk.verticals[i][k]) >= 3
  /\ \A i \in 1..4 : \A r \in 0..(num_levels(dag) - 1) : bk.sched_idx[i][r + 1] = Len(row(dag, r))

(***************************************************************************)
(* Properties of verifier::do_it.                                          *)
(***************************************************************************)
\* The halo-padded boxes of the nodes u and v have a point in common.
HaloBoxesOverlap(u, v) ==
  LET b0 == Position_bbox(elem_pos[u + 1], TRUE)
      b1 == Position_bbox(elem_pos[v + 1], TRUE)
  IN  /\ b1[1].x <= b0[2].x /\ b0[1].x <= b1[2].x
      /\ b1[1].y <= b0[2].y /\ b0[1].y <= b1[2].y

\* C25: verifier::do_it returns normally exactly when, for every two nodes u
\* before v of a row, the halo-padded boxes do not overlap and the left edge
\* of u is strictly left of the left edge of v; otherwise it fails an
\* assertion.
VerifierChecksEveryPair ==
  pc = "verified" =>
    (dag.panic = "none" <=>
       \A p \in RowPairs :
         /\ ~HaloBoxesOverlap(p[1], p[2])
         /\ Position_bbox(elem_pos[p[1] + 1], TRUE)[1].x
              < Position_bbox(elem_pos[p[2] + 1], TRUE)[1].x)

(***************************************************************************)
(* Properties of straighten_edge.                                          *)
(***************************************************************************)
\* The X of the point half way between the centers of the predecessor and
\* of the successor of a candidate; straighten_edge moves neither of them.
Midpoint(c) ==
  (Position_center(elem_pos[single_pred(dag, c)[1] + 1]).x
     + Position_center(elem_pos[single_succ(dag, c)[1] + 1]).x) \div 2

\* The interval between the facing halo edges of the row neighbours of c, as
\* straighten_edge finds it when it comes to c: the left neighbour has had
\* its turn, the right one has not.
LeftEnd(c) ==
  LET rw == row(dag, level(dag, c))
      idx == Position(rw, c)
  IN  IF idx > 1 THEN <<Position_bbox(elem_pos'[rw[idx - 1] + 1], TRUE)[2].x>> ELSE <<>>

RightEnd(c) ==
  LET rw == row(dag, level(dag, c))
      idx == Position(rw, c)
  IN  IF idx < Len(rw) THEN <<Position_bbox(elem_pos[rw[idx + 1] + 1], TRUE)[1].x>> ELSE <<>>

Candidates == {to_straighten(PVG)[k] : k \in 1..Len(to_straighten(PVG))}

StraightenStep == op' = "straighten_edge" /\ pc = "aligned" /\ dag'.panic = "none"

\* C26 as stated: the center of every candidate goes to the midpoint when the
\* midpoint lies inside the interval, and to the nearest end of the interval
\* when it lies outside.
StraightenClamps ==
  [][(StraightenStep) =>
       (\A c \in Candidates :
          Position_center(elem_pos'[c + 1]).x =
            IF LeftEnd(c) # <<>> /\ Midpoint(c) < LeftEnd(c)[1] THEN LeftEnd(c)[1]
            ELSE IF RightEnd(c) # <<>> /\ Midpoint(c) > RightEnd(c)[1] THEN RightEnd(c)[1]
            ELSE Midpoint(c))]_vars

\* C26, amended: the center of every candidate goes to the midpoint when the
\* midpoint lies inside the interval, and the candidate stays where it is
\* when the midpoint lies outside; nothing else moves.
StraightenOrLeave ==
  [][(StraightenStep) =>
       (/\ \A c \in Candidates :
             IF in_range(<<LeftEnd(c), RightEnd(c)>>, Midpoint(c))
             THEN Position_center(elem_pos'[c + 1]).x = Midpoint(c)
             ELSE elem_pos'[c + 1] = elem_pos[c + 1]
        /\ \A h \in Handles(dag) \ Candidates : elem_pos'[h + 1] = elem_pos[h + 1]
        /\ \A h \in Handles(dag) : elem_pos'[h + 1].middle.y = elem_pos[h + 1].middle.y)]_vars

\* A graph after straighten_edge in which one connector was moved to its
\* midpoint and another, whose midpoint lies outside its interval, was not.
StraightenOrLeaveWitness ==
  /\ pc = "straightened" /\ dag.panic = "none"
  /\ \E c \in Handles(dag) :
       /\ is_connector(PVG, c)
       /\ single_pred(dag, c) # <<>> /\ single_succ(dag, c) # <<>>
       /\ Position_center(elem_pos[c + 1]).x = Midpoint(c)
       /\ \E b \in Handles(dag) \ {c} :
            /\ is_connector(PVG, b)
            /\ single_pred(dag, b) # <<>> /\ single_succ(dag, b) # <<>>
            /\ ~is_connector(PVG, single_pred(dag, b)[1])
            /\ ~is_connector(PVG, single_succ(dag, b)[1])
            /\ level(dag, b) = level(dag, c)
            /\ Position_center(elem_pos[b + 1]).x # Midpoint(b)

(***************************************************************************)
(* Properties of the edge fixers on self edges.                            *)
(***************************************************************************)
\* The connectors of the self edges, each with its node: the edge paths
\* [n, c, n].
SelfEdgeConnectorsOf(es) ==
  {<<es[i].lst[2], es[i].lst[1]>> :
     i \in {j \in 1..Len(es) : Len(es[j].lst) = 3 /\ es[j].lst[1] = es[j].lst[3]}}

\* C27: after the edge fixers every self-edge connector c of a node n has
\* been snapped against n: the right halo edge of c coincides with the left
\* halo edge of n.
SelfEdgeSnapped ==
  (pc = "fixed" /\ dag.panic = "none") =>
    \A p \in SelfEdgeConnectorsOf(edges) :
       Position_bbox(elem_pos[p[1] + 1], TRUE)[2].x = Position_bbox(elem_pos[p[2] + 1], TRUE)[1].x

(***************************************************************************)
(* Properties of swap_crossed_edges.                                       *)
(***************************************************************************)
\* The crossings of the edges of a and b with the rows that the direction
\* considers, a standing before b in the row row_idx.
PairCrossings(d, a, b, row_idx, dir) ==
  (IF row_idx > 0 /\ is_up(dir) THEN num_crossing(d, a, b, row(d, row_idx - 1)) ELSE 0)
    + (IF row_idx + 1 < num_levels(d) /\ is_down(dir)
       THEN num_crossing(d, a, b, row(d, row_idx + 1)) ELSE 0)

\* The first place at which two rows of the same length differ, 0 if none.
FirstSwap(before, after) ==
  IF before = after THEN 0
  ELSE CHOOSE i \in 1..Len(before) :
         before[i] # after[i] /\ \A j \in 1..(i - 1) : before[j] = after[j]

\* The row that the next call of swap_crossed_edges_on_row works on.
SwapRowIdx == swap_run.order[swap_run.k]

\* Every run of swap_crossed_edges that was started comes to its end.
SwapTerminates == (swap_run.state = "running") ~> (swap_run.state = "done")

\* A call changes its row only, and the first pair it swaps, which stands as
\* it stood on entry, crosses more often as it stood than swapped.
SwapsOnlyWhenFewer ==
  [][(swap_run.state = "running" /\ op' = "swap_crossed_edges_on_row") =>
       (/\ \A l \in 0..(num_levels(dag) - 1) : l # SwapRowIdx => row(dag', l) = row(dag, l)
        /\ dag'.nodes = dag.nodes /\ dag'.levels = dag.levels /\ dag'.panic = "none"
        /\ (row(dag', SwapRowIdx) # row(dag, SwapRowIdx)) =>
             LET i == FirstSwap(row(dag, SwapRowIdx), row(dag', SwapRowIdx))
                 a == row(dag, SwapRowIdx)[i]
                 b == row(dag, SwapRowIdx)[i + 1]
             IN  /\ i < Len(row(dag, SwapRowIdx))
                 /\ row(dag', SwapRowIdx)[i] = b
                 /\ PairCrossings(dag, a, b, SwapRowIdx, swap_run.dir)
                      > PairCrossings(dag, b, a, SwapRowIdx, swap_run.dir))]_vars

\* C28: on every ranked DAG whose edges each span one level, and for each
\* direction, swap_crossed_edges terminates, and it swaps a pair only when the
\* pair crosses strictly more often as it stands than swapped.
SwapCrossedEdgesTerminates == SwapTerminates /\ SwapsOnlyWhenFewer

\* A run on three rows in the direction Up that swapped and came to its end.
SwapCrossedEdgesTerminatesWitness ==
  /\ swap_run.state = "done" /\ swap_run.swapped /\ swap_run.dir = "Up"
  /\ num_levels(dag) = 3
  /\ \E a \in Handles(dag), b \in Handles(dag) :
       a < b /\ level(dag, a) = 1 /\ level(dag, b) = 1
         /\ Position(row(dag, 1), b) < Position(row(dag, 1), a)

(***************************************************************************)
(* Properties of the edge paths of a lowered graph.                        *)
(***************************************************************************)
\* The nodes that are not connectors: the lowering adds connectors only, at
\* the end of the node list, so these are the nodes of the input.
InputNodes == {h \in Handles(dag) : ~(nodes[h + 1].shape = "Connector")}

IsSelfEdgePath(lst) == Len(lst) = 3 /\ lst[1] = lst[3]

\* The steps of the edge paths other than the self-edge paths.
PathSteps(es) ==
  LET RECURSIVE Sum(_)
      Sum(i) ==
        IF i = 0 THEN 0
        ELSE (IF IsSelfEdgePath(es[i].lst) THEN 0 ELSE Len(es[i].lst) - 1) + Sum(i - 1)
  IN  Sum(Len(es))

\* C29: in a lowered graph every edge path has two handles or more, runs from
\* an input node to an input node through connectors that the lowering
\* added; every step of a path that is not a self-edge path is a DAG edge,
\* and the DAG has as many edges as those paths have steps.
EdgePathsMatchDag ==
  (pc = "lowered" /\ dag.panic = "none") =>
    /\ InputNodes = 0..(Cardinality(InputNodes) - 1)
    /\ \A i \in 1..Len(edges) :
         /\ Len(edges[i].lst) >= 2
         /\ edges[i].lst[1] \in InputNodes
         /\ edges[i].lst[Len(edges[i].lst)] \in InputNodes
         /\ \A j \in 2..(Len(edges[i].lst) - 1) :
              edges[i].lst[j] \in Handles(dag) \ InputNodes
         /\ ~IsSelfEdgePath(edges[i].lst) =>
              \A j \in 1..(Len(edges[i].lst) - 1) :
                 \E s \in 1..Len(successors(dag, edges[i].lst[j])) :
                    successors(dag, edges[i].lst[j])[s] = edges[i].lst[j + 1]
    /\ NumEdges(dag) = PathSteps(edges)

\* A lowered graph with a self edge, a path through a label connector and a
\* path through the connector of a long edge.
EdgePathsMatchDagWitness ==
  /\ pc = "lowered" /\ dag.panic = "none"
  /\ \E i \in 1..Len(edges) : IsSelfEdgePath(edges[i].lst)
  /\ \E i \in 1..Len(edges) :
       /\ ~IsSelfEdgePath(edges[i].lst) /\ Len(edges[i].lst) >= 3
       /\ nodes[edges[i].lst[2] + 1].text = ""
  /\ \E i \in 1..Len(edges) :
       /\ ~IsSelfEdgePath(edges[i].lst) /\ Len(edges[i].lst) >= 3
       /\ nodes[edges[i].lst[2] + 1].text # ""

(***************************************************************************)
(* Properties of the links of compute_alignment.  The links are read off   *)
(* the verticals of BK::do_it: a link is <<the node above, the node        *)
(* below>>.                                                                *)
(***************************************************************************)
PlaceInRow(n) == Position(row(dag, level(dag, n)), n)

\* The links of a NodeAttachInfo.
LinksOfInfo(info) ==
  {<<info.above[n + 1], n>> : n \in {h \in 0..(Len(info.above) - 1) : info.above[h + 1] # -1}}

AlignmentOrders == <<"RightToLeft", "RightToLeft", "LeftToRight", "LeftToRight">>

\* C30: no call of NodeAttachInfo::add in compute_alignment fails, in either
\* direction of the scan; a link goes from a node to the row above it, a
\* node has one link upward and one link from below at most, and two links
\* between the same rows do not cross: their upper ends stand in the order of
\* their lower ends.  The links are those of the verticals of BK::do_it.
AlignmentLinksOrdered ==
  [][(pc = "simple" /\ op' = "BK::do_it") =>
       (\A i \in 1..4 :
          /\ compute_alignment(PVG, AlignmentOrders[i]).panic = "none"
          /\ LinksOf(bk'.verticals[i]) = LinksOfInfo(compute_alignment(PVG, AlignmentOrders[i]))
          /\ \A l \in LinksOfInfo(compute_alignment(PVG, AlignmentOrders[i])) :
               /\ level(dag, l[2]) = level(dag, l[1]) + 1
               /\ compute_alignment(PVG, AlignmentOrders[i]).below[l[1] + 1] = l[2]
               /\ \A m \in LinksOfInfo(compute_alignment(PVG, AlignmentOrders[i])) :
                    /\ (l[1] = m[1] \/ l[2] = m[2]) => l = m
                    /\ (level(dag, l[2]) = level(dag, m[2])
                          /\ PlaceInRow(l[2]) < PlaceInRow(m[2]))
                         => PlaceInRow(l[1]) < PlaceInRow(m[1]))]_vars

\* A placed graph with two links between the same two rows in the scan from
\* the left, and an edge between these rows that crosses one of them and is
\* not a link.
AlignmentLinksOrderedWitness ==
  /\ pc = "bk" /\ dag.panic = "none"
  /\ \E l \in LinksOf(bk.verticals[3]), m \in LinksOf(bk.verticals[3]) :
       l # m /\ level(dag, l[2]) = level(dag, m[2])
  /\ \E l \in LinksOf(bk.verticals[3]) :
       \E n \in Handles(dag) :
          \E k \in 1..Len(predecessors(dag, n)) :
             /\ level(dag, n) = level(dag, l[2])
             /\ <<predecessors(dag, n)[k], n>> \notin LinksOf(bk.verticals[3])
             /\ PlaceInRow(l[2]) < PlaceInRow(n)
             /\ PlaceInRow(predecessors(dag, n)[k]) < PlaceInRow(l[1])

====
